---- MODULE Spec2Model ----
(***************************************************************************)
(* CrossDexArbitrageWithFlashLoan (src/unnamed/part_000): the flash-loan   *)
(* orchestrator, the arbitrage engine, the execution-context store and the *)
(* metrics, as a state machine over the contract's storage and the token   *)
(* balances it reads.  A top-level transaction is split at the calls it     *)
(* makes to code outside the contract (the lender, the two routers); every *)
(* action runs the contract's code from one such call to the next.         *)
(* Reverts are modelled by snapshots of the revertible chain state `st`.   *)
(***************************************************************************)
EXTENDS Integers, Sequences, FiniteSets, TLC

\* ---------------------------------------------------------------- bounds
MaxAmount == 1
MaxBalance == 2
MaxBlock == 2
MaxExecutions == 2
IntBits == 4
MaxFee == 1
MaxTimeout == 3
MaxInterval == 2
MaxPollTime == 2
MAX_RETRY_ATTEMPTS == 5

\* ------------------------------------------------------------- constants
MAX_INT256 == 2 ^ (IntBits - 1) - 1
MIN_INT256 == 0 - 2 ^ (IntBits - 1)
MAX_UINT256 == 2 ^ IntBits - 1
FlashLoanFeeBps == 0
MAX_BPS == 10000

Owner == "owner"
User == "user"
balancerVault == "vault"
Callers == {Owner, User}
Tokens == {"tokenA", "tokenB"}
Routers == {"router1", "router2"}
Amounts == 0 .. MaxAmount
\* inputs of the executions
ExecutionSenders == {User}
RouterPairs == {<<"router1", "router2">>}
ExpectedPairs == {<<1, 0 - 1>>}
ConfigurableTokens == {"tokenA"}
AdminCallers == {Owner}
NonLenders == {Owner, User}
Self == "contract"
WrapperCallers == {User, "router1", balancerVault}
ZeroId == <<>>
UnknownId == <<"unknown">>
ZeroAddress == "0x0"
DexNames == {"uniswap"}
Pools == {"pool1"}

VARIABLES
    owner,            \* Ownable._owner
    paused,           \* Pausable._paused
    reentrancyStatus, \* ReentrancyGuard._status
    tokenConfigs,     \* mapping(address => TokenConfig)
    blockNo,          \* block.number / block.timestamp of the current block
    st,               \* revertible state: storage maps, metrics, balances, events
    pc,               \* position of the top-level transaction in flight
    call,             \* arguments, execution id and preCallBalance of that transaction
    loanSnap,         \* st when balancerVault.flashLoan was called (try/catch frame)
    frames,           \* engine self-call frames (params, snapshot, locals)
    pre,              \* st when the top-level transaction in flight began (st when idle)
    lastResult,       \* outcome of the last call, when it was rejected or was an execution
    execCount,        \* number of executions that passed validation
    adminCfg,         \* dexConfigs, poolConfigs and the two reference router addresses
    lenderFee,        \* feeAmounts[0] the lender charges on a loan
    calc,             \* operands and result of a profit computation taken on its own
    confirmation,     \* a run of waitForTransactionConfirmation (utils.js)
    tokenScript,      \* a run of the configureToken helper (configureTokens.js)
    tracker           \* a TransactionTracker (utils.js) and the outcome of its last call

\* the state of the off-chain helpers
offchain == <<confirmation, tokenScript, tracker>>

vars == <<owner, paused, reentrancyStatus, tokenConfigs, blockNo, st, pc, call,
          loanSnap, frames, pre, lastResult, execCount, adminCfg, lenderFee, calc,
          offchain>>

\* ------------------------------------------------------- data structures
ZeroTokenConfig == [isEnabled |-> FALSE, maxAmount |-> 0, minAmount |-> 0, decimals |-> 0]

ZeroTradeContext ==
    [sourceTokenStartBalance |-> 0, targetTokenStartBalance |-> 0,
     tradeInputAmount |-> 0, intermediateTokenAmount |-> 0,
     tradeFinalBalance |-> 0, expectedFirstLegOutput |-> 0,
     actualFirstLegOutput |-> 0, expectedSecondOutput |-> 0,
     actualSecondOutput |-> 0, executed |-> FALSE]

ZeroMetrics ==
    [totalExecutions |-> 0, successfulExecutions |-> 0, failedExecutions |-> 0,
     totalProfit |-> 0, flashLoanExecutions |-> 0, flashLoanSuccessful |-> 0,
     flashLoanFailed |-> 0, flashLoanProfit |-> 0]

ZeroDexConfig ==
    [router |-> ZeroAddress, isEnabled |-> FALSE, defaultFee |-> 0, maxGasUsage |-> 0,
     supportedFees |-> {}, supportedPools |-> {}]

ZeroPoolConfig == [isEnabled |-> FALSE, fee |-> 0, minLiquidity |-> 0, dexRouter |-> ZeroAddress]

\* flashLoanContexts[id] of an id under which nothing is stored
ZeroFlashLoanContext ==
    [sourceToken |-> ZeroAddress, targetToken |-> ZeroAddress, amount |-> 0,
     firstRouter |-> ZeroAddress, secondRouter |-> ZeroAddress, testMode |-> FALSE,
     expectedFirstOutput |-> 0, expectedSecondOutput |-> 0, executionId |-> ZeroId]

ZeroAdminCfg ==
    [dexConfigs |-> [d \in DexNames |-> ZeroDexConfig],
     poolConfigs |-> [q \in Pools |-> ZeroPoolConfig],
     uniswapRouterAddress |-> ZeroAddress,
     traderJoeRouterAddress |-> ZeroAddress]

\* waitForTransactionConfirmation before it is called
NoConfirmation ==
    [at |-> "idle", timeoutMs |-> 0, pollingInterval |-> 0, elapsed |-> 0,
     polls |-> <<>>, returned |-> "none"]

\* the configureToken helper before it is called
NoTokenScript ==
    [at |-> "idle", receipt |-> "null", attempts |-> 0, waits |-> <<>>,
     loggedSuccess |-> FALSE, outcome |-> "none", error |-> "none"]

\* new TransactionTracker()
NewTracker ==
    [transactions |-> {}, maxTransactions |-> 2, called |-> <<"constructor">>,
     thrown |-> "none"]

NoCalc ==
    [initialAccountBalance |-> 0, finalAccountBalance |-> 0, tradeProfit |-> 0,
     expectedSecondOutput |-> 0, amount |-> 0, expectedProfit |-> 0,
     panicked |-> FALSE, done |-> FALSE]

NoCall == [op |-> "none"]
NoResult == [op |-> "none", caller |-> "none", status |-> "none", error |-> "none",
             engine |-> "none", loan |-> "none", id |-> ZeroId, returned |-> 0,
             pulled |-> 0]

\* keccak256(abi.encodePacked(...)): injective in its fields
ExecutionIdOf(sourceToken, targetToken, amount, firstRouter, secondRouter, blk, sender) ==
    <<sourceToken, targetToken, amount, firstRouter, secondRouter, blk, blk, sender, "flashloan">>

\* a storage mapping holds only its non-zero entries
MapGet(m, k, zero) == IF k \in DOMAIN m THEN m[k] ELSE zero
MapPut(m, k, v, zero) ==
    IF v = zero
    THEN [x \in DOMAIN m \ {k} |-> m[x]]
    ELSE [x \in DOMAIN m \cup {k} |-> IF x = k THEN v ELSE m[x]]

TradeContextOf(s, id) == MapGet(s.tradeContexts, id, ZeroTradeContext)
SetTradeContext(s, id, tc) ==
    [s EXCEPT !.tradeContexts = MapPut(s.tradeContexts, id, tc, ZeroTradeContext)]

HasFlashLoanContext(s, id) == id \in DOMAIN s.flashLoanContexts
FlashLoanContextOf(s, id) == MapGet(s.flashLoanContexts, id, ZeroFlashLoanContext)

\* a call of balanceOf or allowance on an address without code reverts
TokenExists(token) == token \in Tokens

\* variant of the context deletion that deletes nothing
KeepFlashLoanContext(s, id) == s

\* delete flashLoanContexts[id]
DeleteFlashLoanContext(s, id) ==
    [s EXCEPT !.flashLoanContexts = [x \in DOMAIN s.flashLoanContexts \ {id} |-> s.flashLoanContexts[x]]]

Emit(s, e) == [s EXCEPT !.events = Append(s.events, e)]

Min(a, b) == IF a < b THEN a ELSE b
Max(a, b) == IF a > b THEN a ELSE b

\* ------------------------------------------------------------------ Init
InitState ==
    [executedTrades |-> {},
     tradeContexts |-> [x \in {} |-> ZeroTradeContext],
     flashLoanContexts |-> [x \in {} |-> ZeroTradeContext],
     metrics |-> ZeroMetrics,
     balance |-> [t \in Tokens |-> 0],
     allowance |-> [t \in Tokens |-> [r \in Routers |-> 0]],
     ownerFunds |-> [t \in Tokens |-> 0],
     lenderNet |-> [t \in Tokens |-> 0],
     events |-> <<>>]

\* the fee the lender charges on a loan (Balancer V2: 0 bps)
FlashLoanFee(amount) == (amount * FlashLoanFeeBps) \div MAX_BPS

\* the state after construction, with a lender that charges `fee` per loan
InitWith(fee, c) ==
    /\ owner = Owner
    /\ paused = FALSE
    /\ reentrancyStatus = "NOT_ENTERED"
    /\ tokenConfigs = [t \in Tokens |-> ZeroTokenConfig]
    /\ blockNo = 1
    /\ st = InitState
    /\ pc = "idle"
    /\ call = NoCall
    /\ loanSnap = InitState
    /\ frames = <<>>
    /\ pre = InitState
    /\ lastResult = NoResult
    /\ execCount = 0
    /\ adminCfg = ZeroAdminCfg
    /\ lenderFee = fee
    /\ calc = c
    /\ confirmation = NoConfirmation
    /\ tokenScript = NoTokenScript
    /\ tracker = NewTracker

Init == InitWith(FlashLoanFee(MaxAmount), NoCalc)

\* ------------------------------------------------------------ arithmetic
\* int256(x) of an unsigned x: the same bits read as two's complement
ToInt256(x) == IF x > MAX_INT256 THEN x - (MAX_UINT256 + 1) ELSE x

\* variant of safeToInt256 that converts without the range check
safeToInt256Wrapping(value) == ToInt256(value)

\* safeToInt256: clamp an unsigned value into the signed range
safeToInt256(value) == IF value > MAX_INT256 THEN MAX_INT256 ELSE ToInt256(value)

\* checked signed arithmetic: a - b panics (0x11) when the result leaves the
\* signed range
SubIntPanics(a, b) == a - b < MIN_INT256 \/ a - b > MAX_INT256

\* checked arithmetic: a - b on unsigned operands and -x on a signed one
\* panic (0x11) on underflow and on overflow
SubPanics(a, b) == a < b
NegPanics(x) == x = MIN_INT256

\* variant of the profit computation that converts without the range checks
TradeProfitUnclamped(initialAccountBalance, finalAccountBalance) ==
    IF finalAccountBalance >= initialAccountBalance
    THEN ToInt256(finalAccountBalance - initialAccountBalance)
    ELSE 0 - ToInt256(initialAccountBalance - finalAccountBalance)

\* tradeProfit: signed difference final - initial, clamped
TradeProfitOf(initialAccountBalance, finalAccountBalance) ==
    IF finalAccountBalance >= initialAccountBalance
    THEN LET rawProfit == finalAccountBalance - initialAccountBalance
         IN IF rawProfit > MAX_INT256 THEN MAX_INT256 ELSE ToInt256(rawProfit)
    ELSE LET rawLoss == initialAccountBalance - finalAccountBalance
         IN IF rawLoss > MAX_INT256 THEN MIN_INT256 ELSE 0 - ToInt256(rawLoss)

\* whether one of the checked operations of the profit computation panics
TradeProfitPanics(initialAccountBalance, finalAccountBalance) ==
    IF finalAccountBalance >= initialAccountBalance
    THEN SubPanics(finalAccountBalance, initialAccountBalance)
    ELSE \/ SubPanics(initialAccountBalance, finalAccountBalance)
         \/ /\ initialAccountBalance - finalAccountBalance <= MAX_INT256
            /\ NegPanics(ToInt256(initialAccountBalance - finalAccountBalance))

\* tradeFinalBalance: inputAmountInt + tradeProfit, clamped
TradeFinalBalanceOf(inputAmountInt, tradeProfit) ==
    IF tradeProfit >= 0
    THEN IF MAX_INT256 - tradeProfit < inputAmountInt
         THEN MAX_INT256 ELSE inputAmountInt + tradeProfit
    ELSE IF MIN_INT256 - tradeProfit > inputAmountInt
         THEN MIN_INT256 ELSE inputAmountInt + tradeProfit

\* expectedProfit: expectedSecondOutput - inputAmountInt, clamped
ExpectedProfitOf(expectedSecondOutput, inputAmountInt) ==
    IF expectedSecondOutput >= 0 /\ inputAmountInt >= 0
    THEN IF MAX_INT256 - expectedSecondOutput < 0 - inputAmountInt
         THEN MAX_INT256 ELSE expectedSecondOutput - inputAmountInt
    ELSE IF expectedSecondOutput < 0 /\ inputAmountInt < 0
    THEN IF MIN_INT256 - expectedSecondOutput > 0 - inputAmountInt
         THEN MIN_INT256 ELSE expectedSecondOutput - inputAmountInt
    ELSE IF expectedSecondOutput >= 0 /\ inputAmountInt < 0
    THEN IF MAX_INT256 - expectedSecondOutput < 0 - inputAmountInt
         THEN MAX_INT256 ELSE expectedSecondOutput - inputAmountInt
    ELSE IF MIN_INT256 - expectedSecondOutput > 0 - inputAmountInt
         THEN MIN_INT256 ELSE expectedSecondOutput - inputAmountInt

\* whether one of the checked operations of the expected-profit computation
\* panics: the negation of the input, the distance to the bound, the difference
ExpectedProfitPanics(expectedSecondOutput, inputAmountInt) ==
    \/ NegPanics(inputAmountInt)
    \/ IF expectedSecondOutput >= 0
       THEN \/ SubIntPanics(MAX_INT256, expectedSecondOutput)
            \/ /\ ~(MAX_INT256 - expectedSecondOutput < 0 - inputAmountInt)
               /\ SubIntPanics(expectedSecondOutput, inputAmountInt)
       ELSE \/ SubIntPanics(MIN_INT256, expectedSecondOutput)
            \/ /\ ~(MIN_INT256 - expectedSecondOutput > 0 - inputAmountInt)
               /\ SubIntPanics(expectedSecondOutput, inputAmountInt)

\* ----------------------------------------------------------------- events
FlashLoanEvent(id, eventType, token, amount, feeOrProfit) ==
    [event |-> "FlashLoanEvent", executionId |-> id, eventType |-> eventType,
     token |-> token, amount |-> amount, profit |-> feeOrProfit, expectedProfit |-> 0,
     tradeFinalBalance |-> 0, finalAccountBalance |-> 0, testMode |-> FALSE]

ArbitrageExecuted(p, finalAccountBalance, tradeFinalBalance, tradeProfit, expectedProfit) ==
    [event |-> "ArbitrageExecuted", executionId |-> p.executionId, eventType |-> 0,
     token |-> p.sourceToken, amount |-> p.amount, profit |-> tradeProfit,
     expectedProfit |-> expectedProfit, tradeFinalBalance |-> tradeFinalBalance,
     finalAccountBalance |-> finalAccountBalance, testMode |-> p.testMode]

\* ------------------------------------------------------- arbitrage engine
\* _safeApprove(token, spender, amount) on a standard ERC-20
SafeApprove(s, token, spender, amount) ==
    [s EXCEPT !.allowance[token][spender] = amount]

\* variant of the replay guard that never fires
AlreadyExecutedNever(s, id) == FALSE

\* the replay guard of executeArbitrageInternal
AlreadyExecuted(s, id) == id \in s.executedTrades

\* executeArbitrageInternal from its entry to the leg-1 router call
EngineBegin(s, p) ==
    IF AlreadyExecuted(s, p.executionId)
    THEN [ok |-> FALSE, error |-> "InvalidExecutionId", s |-> s]
    ELSE LET id == p.executionId
             s1 == [s EXCEPT !.executedTrades = @ \cup {id}]
             tc == [TradeContextOf(s1, id) EXCEPT
                      !.executed = FALSE,
                      !.sourceTokenStartBalance = s1.balance[p.sourceToken],
                      !.targetTokenStartBalance = s1.balance[p.targetToken],
                      !.tradeInputAmount = p.amount,
                      !.expectedFirstLegOutput = p.expectedFirstOutput,
                      !.expectedSecondOutput = p.expectedSecondOutput]
             s2 == SetTradeContext(s1, id, tc)
             s3 == IF s2.allowance[p.sourceToken][p.firstRouter] < p.amount
                   THEN SafeApprove(s2, p.sourceToken, p.firstRouter, MAX_UINT256)
                   ELSE s2
         IN IF ~TokenExists(p.sourceToken) \/ ~TokenExists(p.targetToken)
            THEN [ok |-> FALSE, error |-> "revert()", s |-> s1]
            ELSE [ok |-> TRUE, error |-> "none", s |-> s3]

\* variant of the intermediate-token check that goes on with zero tokens
NoTokensReceivedIgnored(targetTokenReceived) == FALSE

\* targetTokenReceived == 0
NoTokensReceived(targetTokenReceived) == targetTokenReceived = 0

\* executeArbitrageInternal from the return of leg 1 to the leg-2 router call
EngineAfterFirstSwap(s, p, initialTargetBalance) ==
    LET id == p.executionId
        currentTargetBalance == s.balance[p.targetToken]
        targetTokenReceived ==
            IF currentTargetBalance > initialTargetBalance
            THEN currentTargetBalance - initialTargetBalance ELSE 0
        tc == [TradeContextOf(s, id) EXCEPT
                 !.intermediateTokenAmount = targetTokenReceived,
                 !.actualFirstLegOutput = targetTokenReceived]
        s1 == SetTradeContext(s, id, tc)
        s2 == IF s1.allowance[p.targetToken][p.secondRouter] < targetTokenReceived
              THEN SafeApprove(s1, p.targetToken, p.secondRouter, MAX_UINT256)
              ELSE s1
    IN IF NoTokensReceived(targetTokenReceived)
       THEN [ok |-> FALSE, error |-> "NoIntermediateTokens", s |-> s1]
       ELSE [ok |-> TRUE, error |-> "none", s |-> s2]

\* variant of the profit gate that test mode does not lift
ProfitAcceptedStrict(tradeProfit, testMode) == tradeProfit > 0

\* variant of the profit gate that lets a zero profit through (>= for >)
ProfitAcceptedZero(tradeProfit, testMode) == tradeProfit >= 0 \/ testMode

\* the profit gate: is this outcome accepted?
ProfitAccepted(tradeProfit, testMode) == tradeProfit > 0 \/ testMode

\* variant of the metrics update that counts and adds every profit, losses
\* included
RecordProfitAlways(s, tradeProfit) ==
    [s EXCEPT !.metrics.successfulExecutions = @ + 1,
              !.metrics.totalProfit = @ + tradeProfit]

\* the metrics update of a profitable trade: only a positive profit is counted
\* and added
RecordProfit(s, tradeProfit) ==
    IF tradeProfit > 0
    THEN [s EXCEPT !.metrics.successfulExecutions = @ + 1,
                   !.metrics.totalProfit = @ + tradeProfit]
    ELSE s

\* executeArbitrageInternal from the return of leg 2 to its end
EngineAfterSecondSwap(s, p, initialAccountBalance) ==
    LET id == p.executionId
        finalAccountBalance == s.balance[p.sourceToken]
        inputAmountInt == safeToInt256(p.amount)
        tradeProfit == TradeProfitOf(initialAccountBalance, finalAccountBalance)
        tradeFinalBalance == TradeFinalBalanceOf(inputAmountInt, tradeProfit)
        tc == [TradeContextOf(s, id) EXCEPT
                 !.tradeFinalBalance = tradeFinalBalance,
                 !.actualSecondOutput = tradeProfit,
                 !.executed = TRUE]
        s1 == SetTradeContext(s, id, tc)
        expectedProfit == ExpectedProfitOf(p.expectedSecondOutput, inputAmountInt)
        s2 == RecordProfit(s1, tradeProfit)
        s3 == [s2 EXCEPT !.metrics.totalExecutions = @ + 1]
        s4 == Emit(s3, ArbitrageExecuted(p, finalAccountBalance, tradeFinalBalance,
                                         tradeProfit, expectedProfit))
    IN IF ProfitAccepted(tradeProfit, p.testMode)
       THEN [ok |-> TRUE, error |-> "none", s |-> s4, profit |-> tradeProfit]
       ELSE [ok |-> FALSE, error |-> "InsufficientProfit", s |-> s2, profit |-> 0]

\* ------------------------------------------------- flash-loan orchestrator
\* variant of the caller check that lets every caller through
IsLenderAnyone(caller) == TRUE

\* receiveFlashLoan: is the caller the trusted lender?
IsLender(caller) == caller = balancerVault

\* variant of the catch clauses without the catch-all for custom errors: only
\* Error(string) and Panic(uint) are absorbed
CatchesStringAndPanicOnly(error) == error \in {"Error(string)", "Panic(uint256)"}

\* receiveFlashLoan: the failures of the engine self-call its catch clauses
\* absorb (Error(string), Panic(uint), and any other revert data)
CatchesEngineFailure(error) == TRUE

\* variant in which a failed engine run returns instead of reverting, so that
\* what it wrote stays
EngineNotReverted(snap, s) == s

\* a revert inside the engine self-call restores the state at the call
EngineReverted(snap, s) == snap

\* receiveFlashLoan from the end of the engine self-call to its own end
\* variant of the repayment amount that leaves the fee out
RepayPrincipalOnly(amount0, feeAmount0) == amount0

\* repayAmount = amounts[0] + feeAmounts[0]
RepayAmountOf(amount0, feeAmount0) == amount0 + feeAmount0

\* variant of the shortfall check that never sees a shortfall
InsufficientBalanceNever(currentBalance, repayAmount) == FALSE

\* currentBalance < repayAmount
InsufficientBalance(currentBalance, repayAmount) == currentBalance < repayAmount

\* variant of the callback's metrics update that records no profit
RecordFlashLoanProfitNever(s, engineOk, profit) == s

\* the callback's metrics update: a positive profit of an engine run that
\* returned is added to flashLoanProfit
RecordFlashLoanProfit(s, engineOk, profit) ==
    IF engineOk /\ profit > 0
    THEN [s EXCEPT !.metrics.flashLoanProfit = @ + profit] ELSE s

CallbackRepay(s, ctx, engineOk, engineError, profit, amount0, feeAmount0) ==
    LET id == ctx.executionId
        src == ctx.sourceToken
        s1 == IF engineOk THEN s
              ELSE SetTradeContext(s, id, [TradeContextOf(s, id) EXCEPT !.executed = FALSE])
        s2 == RecordFlashLoanProfit(s1, engineOk, profit)
        repayAmount == RepayAmountOf(amount0, feeAmount0)
        currentBalance == s2.balance[src]
        shortfall == repayAmount - currentBalance
        s3 == IF InsufficientBalance(currentBalance, repayAmount)
              THEN [s2 EXCEPT !.balance[src] = @ + shortfall, !.ownerFunds[src] = @ - shortfall]
              ELSE s2
        s4 == [s3 EXCEPT !.balance[src] = @ - repayAmount,
                         !.lenderNet[src] = @ + repayAmount]
        s5 == Emit(s4, FlashLoanEvent(id, 2, src, ctx.amount, profit))
        s6 == DeleteFlashLoanContext(s5, id)
    IN IF ~engineOk /\ ~CatchesEngineFailure(engineError)
       THEN [ok |-> FALSE, error |-> engineError, s |-> s]
       ELSE IF ~TokenExists(src)
       THEN [ok |-> FALSE, error |-> "revert()", s |-> s]
       ELSE IF InsufficientBalance(currentBalance, repayAmount) /\ ~ctx.testMode
       THEN [ok |-> FALSE, error |-> "InsufficientRepayment", s |-> s2]
       ELSE IF InsufficientBalance(currentBalance, repayAmount) /\ s2.ownerFunds[src] < shortfall
       THEN [ok |-> FALSE, error |-> "TestModeShortfall", s |-> s2]
       ELSE [ok |-> TRUE, error |-> "none", s |-> s6]

\* variant of the block after a returned flash loan that counts the execution
\* but not the success
FlashLoanSucceededUncounted(s) == [s EXCEPT !.metrics.flashLoanExecutions = @ + 1]

\* executeFlashLoanArbitrage: the block after a flash loan that returned
FlashLoanSucceeded(s) ==
    [s EXCEPT !.metrics.flashLoanExecutions = @ + 1,
              !.metrics.flashLoanSuccessful = @ + 1]

\* variant of the catch clauses that forgets to delete the stored context
FlashLoanCaughtKeepsContext(snap, id) ==
    [snap EXCEPT !.metrics.flashLoanFailed = @ + 1,
                 !.metrics.flashLoanExecutions = @ + 1]

\* variant of the catch clauses that counts the failure but not the execution
FlashLoanCaughtUncounted(snap, id) ==
    DeleteFlashLoanContext([snap EXCEPT !.metrics.flashLoanFailed = @ + 1], id)

\* executeFlashLoanArbitrage: the catch clauses after a flash loan that failed;
\* `snap` is the state at the call, to which the failed call is rolled back
FlashLoanCaught(snap, id) ==
    DeleteFlashLoanContext(
        [snap EXCEPT !.metrics.flashLoanFailed = @ + 1,
                     !.metrics.flashLoanExecutions = @ + 1], id)

\* the outcome of a call: how it ended, how the engine run and the loan ended,
\* the value returned, and the amount the callback took from the owner's wallet
Result(op, caller, status, error, engine, loan, id, returned, pulled) ==
    [op |-> op, caller |-> caller, status |-> status, error |-> error,
     engine |-> engine, loan |-> loan, id |-> id, returned |-> returned,
     pulled |-> pulled]

\* the rest of the top-level transaction once the engine self-call has ended
\* in state s (accepted with `profit`, or rolled back with `engineError`)
CompleteExecution(s, engineOk, profit, engineError) ==
    LET p == call.params
        cb == CallbackRepay(s, p, engineOk, engineError, profit, p.amount, lenderFee)
        final == IF cb.ok THEN FlashLoanSucceeded(cb.s)
                 ELSE FlashLoanCaught(loanSnap, p.executionId)
    IN /\ st' = final
       /\ lastResult' = Result("executeFlashLoanArbitrage", call.sender, "returned",
                               IF cb.ok THEN "none" ELSE cb.error,
                               IF engineOk THEN "accepted" ELSE engineError,
                               IF cb.ok THEN "repaid" ELSE "failed",
                               p.executionId, final.balance[p.sourceToken],
                               pre.ownerFunds[p.sourceToken] - final.ownerFunds[p.sourceToken])
       /\ pc' = "idle"
       /\ call' = NoCall
       /\ frames' = <<>>
       /\ loanSnap' = InitState
       /\ reentrancyStatus' = "NOT_ENTERED"
       /\ pre' = final
       /\ UNCHANGED <<adminCfg, lenderFee, calc, offchain, owner, paused, tokenConfigs, blockNo, execCount>>

\* a call that is rejected: nothing changes but the recorded outcome
Rejected(op, caller, error, id) ==
    /\ lastResult' = Result(op, caller, "reverted", error, "none", "none", id, 0, 0)
    /\ pre' = pre
    /\ UNCHANGED <<adminCfg, lenderFee, calc, offchain, owner, paused, reentrancyStatus, tokenConfigs, blockNo, st, pc, call,
                   loanSnap, frames, execCount>>

\* variant of the validations without the pause check
ValidationErrorNoPause(sourceToken, targetToken, amount) ==
    IF reentrancyStatus = "ENTERED" THEN "ReentrancyGuard: reentrant call"
    ELSE IF sourceToken = targetToken THEN "InvalidTokens"
    ELSE IF amount = 0 THEN "ZeroAmount"
    ELSE IF ~tokenConfigs[sourceToken].isEnabled THEN "DisabledToken"
    ELSE "none"

\* variant of the validations without the reentrancy guard
ValidationErrorNoGuard(sourceToken, targetToken, amount) ==
    IF paused THEN "Pausable: paused"
    ELSE IF sourceToken = targetToken THEN "InvalidTokens"
    ELSE IF amount = 0 THEN "ZeroAmount"
    ELSE IF ~tokenConfigs[sourceToken].isEnabled THEN "DisabledToken"
    ELSE "none"

\* variant of the validations without the zero-amount check
ValidationErrorNoZeroCheck(sourceToken, targetToken, amount) ==
    IF reentrancyStatus = "ENTERED" THEN "ReentrancyGuard: reentrant call"
    ELSE IF paused THEN "Pausable: paused"
    ELSE IF sourceToken = targetToken THEN "InvalidTokens"
    ELSE IF ~tokenConfigs[sourceToken].isEnabled THEN "DisabledToken"
    ELSE "none"

\* the validations of executeFlashLoanArbitrage, in order; "none" when all pass
ValidationError(sourceToken, targetToken, amount) ==
    IF reentrancyStatus = "ENTERED" THEN "ReentrancyGuard: reentrant call"
    ELSE IF paused THEN "Pausable: paused"
    ELSE IF sourceToken = targetToken THEN "InvalidTokens"
    ELSE IF amount = 0 THEN "ZeroAmount"
    ELSE IF ~tokenConfigs[sourceToken].isEnabled THEN "DisabledToken"
    ELSE "none"

ExecuteFlashLoanArbitrage(sender, sourceToken, targetToken, amount, firstRouter, secondRouter, testMode, expectedFirstOutput, expectedSecondOutput) ==
    LET error == ValidationError(sourceToken, targetToken, amount)
        id == ExecutionIdOf(sourceToken, targetToken, amount, firstRouter,
                            secondRouter, blockNo, sender)
        p == [sourceToken |-> sourceToken, targetToken |-> targetToken,
              amount |-> amount, firstRouter |-> firstRouter,
              secondRouter |-> secondRouter, testMode |-> testMode,
              expectedFirstOutput |-> expectedFirstOutput,
              expectedSecondOutput |-> expectedSecondOutput, executionId |-> id]
        s1 == [st EXCEPT !.flashLoanContexts =
                  [x \in DOMAIN @ \cup {id} |-> IF x = id THEN p ELSE @[x]]]
        s2 == Emit(s1, FlashLoanEvent(id, 1, sourceToken, amount, 0))
    IN IF error # "none"
       THEN Rejected("executeFlashLoanArbitrage", "any", error, ZeroId)
       ELSE /\ pc = "idle"
            /\ execCount < MaxExecutions
            /\ st.balance[sourceToken] + amount <= MaxBalance
            /\ st' = s2
            /\ loanSnap' = s2
            /\ pre' = st
            /\ call' = [op |-> "executeFlashLoanArbitrage", sender |-> sender,
                        params |-> p, preCallBalance |-> st.balance[sourceToken]]
            /\ pc' = "inVault"
            /\ reentrancyStatus' = "ENTERED"
            /\ execCount' = execCount + 1
            /\ lastResult' = NoResult
            /\ UNCHANGED <<adminCfg, lenderFee, calc, offchain, owner, paused, tokenConfigs, blockNo, frames>>

\* the lender's flashLoan fails before it calls back (reason string, panic or
\* low-level revert): the matching catch clause runs
FlashLoanFails(kind) ==
    /\ pc = "inVault"
    /\ kind \in {"Error", "Panic", "LowLevel"}
    /\ LET p == call.params
           final == FlashLoanCaught(loanSnap, p.executionId)
       IN /\ st' = final
          /\ lastResult' = Result("executeFlashLoanArbitrage", call.sender, "returned",
                                  "FlashLoanFailed", "notRun", "failed", p.executionId,
                                  final.balance[p.sourceToken], 0)
    /\ pc' = "idle"
    /\ call' = NoCall
    /\ frames' = <<>>
    /\ loanSnap' = InitState
    /\ reentrancyStatus' = "NOT_ENTERED"
    /\ pre' = st'
    /\ UNCHANGED <<adminCfg, lenderFee, calc, offchain, owner, paused, tokenConfigs, blockNo, execCount>>

\* ------------------------------------------------ lender callback and legs
\* the balances a router call may leave: a router can take from the contract
\* at most what it is approved for, and may send it any amount
RouterOutcomes(s, router) ==
    {nb \in [Tokens -> 0 .. MaxBalance] :
        \A t \in Tokens : nb[t] >= s.balance[t] - Min(s.balance[t], s.allowance[t][router])}

\* the state after a router call that moved the contract's balances to nb
\* (an allowance of MAX_UINT256 is not consumed)
AfterRouter(s, router, nb) ==
    [s EXCEPT !.balance = nb,
              !.allowance = [t \in Tokens |->
                  [r \in Routers |->
                      IF r = router /\ s.allowance[t][r] # MAX_UINT256 /\ nb[t] < s.balance[t]
                      THEN s.allowance[t][r] - (s.balance[t] - nb[t])
                      ELSE s.allowance[t][r]]]]

Frame(p, snap, initialAccountBalance, initialTargetBalance, leg) ==
    [params |-> p, snap |-> snap, initialAccountBalance |-> initialAccountBalance,
     initialTargetBalance |-> initialTargetBalance, leg |-> leg]

\* a flash loan to the contract that another account asked the lender for,
\* with userData = executionId: the callback runs outside any
\* executeFlashLoanArbitrage, and its revert undoes the whole loan
LoanByOther(caller, executionId) ==
    LET ctx == FlashLoanContextOf(st, executionId)
        eng == EngineBegin(st, ctx)
        cb == CallbackRepay(EngineReverted(st, eng.s), ctx, FALSE, eng.error, 0, ctx.amount, lenderFee)
    IN /\ ~eng.ok
       /\ ~cb.ok
       /\ lastResult' = Result("receiveFlashLoan", caller, "reverted", cb.error, eng.error,
                               "none", executionId, 0, 0)
       /\ pre' = pre
       /\ UNCHANGED <<adminCfg, lenderFee, calc, offchain, owner, paused, reentrancyStatus, tokenConfigs,
                      blockNo, st, pc, call, loanSnap, frames, execCount>>

\* receiveFlashLoan(tokens, amounts, feeAmounts, userData) up to the leg-1 router
\* call.  The lender calls it once per loan, after sending the amount, with the
\* userData of the request: for the loan of the execution in flight, or for a
\* loan another account requested; any other account may call it at any time.
ReceiveFlashLoan(caller, executionId) ==
    /\ caller = balancerVault =>
          \/ pc = "inVault" /\ executionId = call.params.executionId
          \/ pc = "idle"
    /\ IF ~IsLender(caller)
       THEN Rejected("receiveFlashLoan", caller, "UnauthorizedCaller", executionId)
       ELSE IF FlashLoanContextOf(st, executionId).executionId # executionId
       THEN Rejected("receiveFlashLoan", caller, "InvalidExecutionId", executionId)
       ELSE IF pc # "inVault"
       THEN LoanByOther(caller, executionId)
       ELSE LET ctx == st.flashLoanContexts[executionId]
                s0 == [st EXCEPT !.balance[ctx.sourceToken] = @ + ctx.amount,
                                 !.lenderNet[ctx.sourceToken] = @ - ctx.amount]
                eng == EngineBegin(s0, ctx)
            IN IF eng.ok
               THEN /\ st' = eng.s
                    /\ frames' = <<Frame(ctx, s0, s0.balance[ctx.sourceToken],
                                         s0.balance[ctx.targetToken], 1)>>
                    /\ pc' = "inRouter"
                    /\ UNCHANGED <<adminCfg, lenderFee, calc, offchain, owner, paused, reentrancyStatus,
                                   tokenConfigs, blockNo, call, loanSnap, pre, lastResult,
                                   execCount>>
               ELSE CompleteExecution(EngineReverted(s0, eng.s), FALSE, 0, eng.error)

\* variant of the self-call check that lets every caller through
IsSelfAnyone(caller) == TRUE

\* msg.sender == address(this)
IsSelf(caller) == caller = Self

\* executeArbitrageWrapper(params) called as a transaction of its own or by a
\* contract the execution calls: the engine runs only for the contract itself
ExecuteArbitrageWrapper(caller, p) ==
    IF ~IsSelf(caller)
    THEN Rejected("executeArbitrageWrapper", "any", "Unauthorized", ZeroId)
    ELSE LET eng == EngineBegin(st, p)
         IN /\ pc = "idle"
            /\ eng.ok
            /\ st' = eng.s
            /\ frames' = <<Frame(p, st, st.balance[p.sourceToken],
                                 st.balance[p.targetToken], 1)>>
            /\ pc' = "inRouter"
            /\ call' = [op |-> "executeArbitrageWrapper", sender |-> caller,
                        params |-> p, preCallBalance |-> st.balance[p.sourceToken]]
            /\ loanSnap' = st
            /\ pre' = st
            /\ lastResult' = NoResult
            /\ UNCHANGED <<adminCfg, lenderFee, calc, offchain, owner, paused, reentrancyStatus,
                           tokenConfigs, blockNo, execCount>>

\* variant of the leg-1 failure that goes on to leg 2
FirstSwapFailureIgnored ==
    /\ pc = "inRouter" /\ frames[1].leg = 1
    /\ frames' = <<[frames[1] EXCEPT !.leg = 2]>>
    /\ UNCHANGED <<adminCfg, lenderFee, calc, offchain, owner, paused, reentrancyStatus, tokenConfigs,
                   blockNo, st, pc, call, loanSnap, pre, lastResult, execCount>>

\* the leg-1 router call returns failure: FirstSwapFailed rolls the engine back
FirstSwapFails ==
    /\ pc = "inRouter" /\ frames[1].leg = 1
    /\ CompleteExecution(EngineReverted(frames[1].snap, st), FALSE, 0, "FirstSwapFailed")

\* the leg-1 router call returns success, leaving balances nb
FirstSwapReturns(nb) ==
    /\ pc = "inRouter" /\ frames[1].leg = 1
    /\ LET f == frames[1]
           p == f.params
       IN /\ nb \in RouterOutcomes(st, p.firstRouter)
          /\ LET eng == EngineAfterFirstSwap(AfterRouter(st, p.firstRouter, nb), p,
                                             f.initialTargetBalance)
             IN IF eng.ok
                THEN /\ st' = eng.s
                     /\ frames' = <<[f EXCEPT !.leg = 2]>>
                     /\ UNCHANGED <<adminCfg, lenderFee, calc, offchain, owner, paused, reentrancyStatus, tokenConfigs, blockNo,
                                    pc, call, loanSnap, pre, lastResult, execCount>>
                ELSE CompleteExecution(EngineReverted(f.snap, eng.s), FALSE, 0, eng.error)

\* the leg-2 router call returns failure: SecondSwapFailed rolls the engine back
SecondSwapFails ==
    /\ pc = "inRouter" /\ frames[1].leg = 2
    /\ CompleteExecution(EngineReverted(frames[1].snap, st), FALSE, 0, "SecondSwapFailed")

\* the leg-2 router call returns success, leaving balances nb
SecondSwapReturns(nb) ==
    /\ pc = "inRouter" /\ frames[1].leg = 2
    /\ LET f == frames[1]
           p == f.params
       IN /\ nb \in RouterOutcomes(st, p.secondRouter)
          /\ LET eng == EngineAfterSecondSwap(AfterRouter(st, p.secondRouter, nb), p,
                                              f.initialAccountBalance)
             IN IF eng.ok
                THEN CompleteExecution(eng.s, TRUE, eng.profit, "none")
                ELSE CompleteExecution(EngineReverted(f.snap, eng.s), FALSE, 0, eng.error)

\* --------------------------------------------------------- administration
\* variant of the owner check that lets every caller through
OnlyOwnerAnyone(caller) == TRUE

\* Ownable.onlyOwner: owner() == msg.sender
OnlyOwner(caller) == caller = owner

NotOwnerError == "Ownable: caller is not the owner"

\* dexConfigs[dexName]
DexConfigOf(dexName) ==
    IF dexName \in DOMAIN adminCfg.dexConfigs THEN adminCfg.dexConfigs[dexName] ELSE ZeroDexConfig

\* an administrative call that went through (the logs it emits are not kept)
AdminDone ==
    /\ lastResult' = NoResult
    /\ pre' = st'
    /\ UNCHANGED <<lenderFee, calc, offchain, reentrancyStatus, blockNo, pc, call, loanSnap, frames,
                   execCount>>

\* variant of the fee-tier check that lets MAX_BPS itself through (> for >=)
FeeTierRejectedAbove(tier) == tier > MAX_BPS

\* supportedFeeTiers[i] >= MAX_BPS
FeeTierRejected(tier) == tier >= MAX_BPS

\* the fee tiers the loop has stored when it stops: all of them, or those
\* before the first one it rejects
StoredFeeTiers(supportedFeeTiers) ==
    {supportedFeeTiers[i] : i \in {j \in DOMAIN supportedFeeTiers :
        \A k \in 1 .. j : ~FeeTierRejected(supportedFeeTiers[k])}}

\* the writes of configureDex up to the end of the fee-tier loop or to the
\* tier at which the loop stops
DexWrites(dexName, router, defaultFee, maxGasUsage, supportedFeeTiers) ==
    [adminCfg EXCEPT
        !.dexConfigs[dexName] =
            [@ EXCEPT !.router = router, !.isEnabled = TRUE,
                      !.defaultFee = defaultFee, !.maxGasUsage = maxGasUsage,
                      !.supportedFees = @ \cup StoredFeeTiers(supportedFeeTiers)],
        !.uniswapRouterAddress = IF dexName = "uniswap" THEN router ELSE @,
        !.traderJoeRouterAddress =
            IF dexName # "uniswap" /\ dexName = "traderjoe" THEN router ELSE @]

\* variant of configureDex whose fee-tier failure returns without undoing the
\* writes made before it
ConfigureDexPartial(caller, dexName, router, defaultFee, maxGasUsage, supportedFeeTiers) ==
    /\ pc = "idle"
    /\ IF ~OnlyOwner(caller)
       THEN Rejected("configureDex", "any", NotOwnerError, ZeroId)
       ELSE IF router = ZeroAddress \/ dexName = ""
       THEN Rejected("configureDex", "any", "InvalidSetup(2)", ZeroId)
       ELSE /\ adminCfg' = DexWrites(dexName, router, defaultFee, maxGasUsage,
                                     supportedFeeTiers)
            /\ lastResult' =
                  IF \E i \in DOMAIN supportedFeeTiers : FeeTierRejected(supportedFeeTiers[i])
                  THEN Result("configureDex", "any", "reverted", "InvalidSetup(3)", "none",
                              "none", ZeroId, 0, 0)
                  ELSE NoResult
            /\ pre' = st
            /\ UNCHANGED <<owner, paused, tokenConfigs, st, lenderFee, calc, offchain, reentrancyStatus,
                           blockNo, pc, call, loanSnap, frames, execCount>>

ConfigureDex(caller, dexName, router, defaultFee, maxGasUsage, supportedFeeTiers) ==
    /\ pc = "idle"
    /\ IF ~OnlyOwner(caller)
       THEN Rejected("configureDex", "any", NotOwnerError, ZeroId)
       ELSE IF router = ZeroAddress \/ dexName = ""
       THEN Rejected("configureDex", "any", "InvalidSetup(2)", ZeroId)
       ELSE IF \E i \in DOMAIN supportedFeeTiers : FeeTierRejected(supportedFeeTiers[i])
       THEN Rejected("configureDex", "any", "InvalidSetup(3)", ZeroId)
       ELSE /\ adminCfg' = DexWrites(dexName, router, defaultFee, maxGasUsage,
                                     supportedFeeTiers)
            /\ UNCHANGED <<owner, paused, tokenConfigs, st>>
            /\ AdminDone

\* getDexConfig(dexName)
GetDexConfig(dexName) ==
    <<DexConfigOf(dexName).router, DexConfigOf(dexName).defaultFee,
      DexConfigOf(dexName).maxGasUsage, DexConfigOf(dexName).isEnabled>>

\* variant of the DEX check of configurePool that takes every DEX as enabled
DexEnabledAlways(dexName) == TRUE

\* dexConfigs[dexName].isEnabled
DexEnabled(dexName) == DexConfigOf(dexName).isEnabled

ConfigurePool(caller, pool, fee, minLiquidity, dexName) ==
    /\ pc = "idle"
    /\ IF ~OnlyOwner(caller)
       THEN Rejected("configurePool", "any", NotOwnerError, ZeroId)
       ELSE IF pool = ZeroAddress
       THEN Rejected("configurePool", "any", "InvalidSetup(4)", ZeroId)
       ELSE IF ~DexEnabled(dexName)
       THEN Rejected("configurePool", "any", "InvalidSetup(5)", ZeroId)
       ELSE IF fee >= MAX_BPS
       THEN Rejected("configurePool", "any", "InvalidSetup(3)", ZeroId)
       ELSE IF DexConfigOf(dexName).router = ZeroAddress
       THEN Rejected("configurePool", "any", "InvalidSetup(6)", ZeroId)
       ELSE /\ adminCfg' = [adminCfg EXCEPT
                   !.poolConfigs[pool] =
                       [isEnabled |-> TRUE, fee |-> fee, minLiquidity |-> minLiquidity,
                        dexRouter |-> DexConfigOf(dexName).router],
                   !.dexConfigs[dexName].supportedPools = @ \cup {pool}]
            /\ UNCHANGED <<owner, paused, tokenConfigs, st>>
            /\ AdminDone

\* variant of the amount-range check that lets equal bounds through (< for <=)
AmountRangeRejectedStrict(maxAmount, minAmount) == maxAmount < minAmount

\* maxAmount <= minAmount
AmountRangeRejected(maxAmount, minAmount) == maxAmount <= minAmount

ConfigureToken(caller, token, maxAmount, minAmount, decimals) ==
    /\ pc = "idle"
    /\ IF ~OnlyOwner(caller)
       THEN Rejected("configureToken", "any", NotOwnerError, ZeroId)
       ELSE IF token = ZeroAddress
       THEN Rejected("configureToken", "any", "InvalidSetup(7)", ZeroId)
       ELSE IF AmountRangeRejected(maxAmount, minAmount)
       THEN Rejected("configureToken", "any", "InvalidSetup(8)", ZeroId)
       ELSE IF decimals > 18
       THEN Rejected("configureToken", "any", "InvalidSetup(9)", ZeroId)
       ELSE /\ tokenConfigs' = [tokenConfigs EXCEPT ![token] =
                   [isEnabled |-> TRUE, maxAmount |-> maxAmount,
                    minAmount |-> minAmount, decimals |-> decimals]]
            /\ lastResult' = NoResult
            /\ pre' = st
            /\ UNCHANGED <<adminCfg, lenderFee, calc, offchain, owner, paused, reentrancyStatus, blockNo, st, pc, call,
                           loanSnap, frames, execCount>>

SetTokenEnabled(caller, token, isEnabled) ==
    /\ pc = "idle"
    /\ IF ~OnlyOwner(caller)
       THEN Rejected("setTokenEnabled", "any", NotOwnerError, ZeroId)
       ELSE IF token = ZeroAddress \/ tokenConfigs[token].decimals = 0
       THEN Rejected("setTokenEnabled", "any", "InvalidSetup(7)", ZeroId)
       ELSE /\ tokenConfigs' = [tokenConfigs EXCEPT ![token].isEnabled = isEnabled]
            /\ lastResult' = NoResult
            /\ pre' = st
            /\ UNCHANGED <<adminCfg, lenderFee, calc, offchain, owner, paused, reentrancyStatus, blockNo, st, pc, call,
                           loanSnap, frames, execCount>>

SetDexEnabled(caller, dexName, isEnabled) ==
    /\ pc = "idle"
    /\ IF ~OnlyOwner(caller)
       THEN Rejected("setDexEnabled", "any", NotOwnerError, ZeroId)
       ELSE IF DexConfigOf(dexName).router = ZeroAddress
       THEN Rejected("setDexEnabled", "any", "InvalidSetup(2)", ZeroId)
       ELSE /\ adminCfg' = [adminCfg EXCEPT !.dexConfigs[dexName].isEnabled = isEnabled]
            /\ UNCHANGED <<owner, paused, tokenConfigs, st>>
            /\ AdminDone

ApproveRouter(caller, token, router, amount) ==
    /\ pc = "idle"
    /\ IF ~OnlyOwner(caller)
       THEN Rejected("approveRouter", "any", NotOwnerError, ZeroId)
       ELSE /\ st' = SafeApprove(st, token, router, amount)
            /\ UNCHANGED <<adminCfg, owner, paused, tokenConfigs>>
            /\ AdminDone

SetRouterAddresses(caller, uni, joe) ==
    /\ pc = "idle"
    /\ IF ~OnlyOwner(caller)
       THEN Rejected("setRouterAddresses", "any", NotOwnerError, ZeroId)
       ELSE /\ adminCfg' = [adminCfg EXCEPT !.uniswapRouterAddress = uni,
                                            !.traderJoeRouterAddress = joe]
            /\ UNCHANGED <<owner, paused, tokenConfigs, st>>
            /\ AdminDone

\* triggerCircuitBreaker(reason): _pause() and a log entry
TriggerCircuitBreaker(caller) ==
    /\ pc = "idle"
    /\ IF ~OnlyOwner(caller)
       THEN Rejected("triggerCircuitBreaker", "any", NotOwnerError, ZeroId)
       ELSE IF paused
       THEN Rejected("triggerCircuitBreaker", "any", "Pausable: paused", ZeroId)
       ELSE /\ paused' = TRUE
            /\ UNCHANGED <<adminCfg, owner, tokenConfigs, st>>
            /\ AdminDone

\* withdrawFunds(token, amount): `amount` goes to the owner when the balance
\* covers it; otherwise the call returns false
WithdrawFunds(caller, token, amount) ==
    /\ pc = "idle"
    /\ IF ~OnlyOwner(caller)
       THEN Rejected("withdrawFunds", "any", NotOwnerError, ZeroId)
       ELSE IF token = ZeroAddress
       THEN Rejected("withdrawFunds", "any", "InvalidSetup(7)", ZeroId)
       ELSE IF amount = 0
       THEN Rejected("withdrawFunds", "any", "InvalidSetup(8)", ZeroId)
       ELSE /\ st' = IF st.balance[token] < amount THEN st
                     ELSE [st EXCEPT !.balance[token] = @ - amount]
            /\ UNCHANGED <<adminCfg, owner, paused, tokenConfigs>>
            /\ AdminDone

\* Ownable.transferOwnership(newOwner)
TransferOwnership(caller, newOwner) ==
    /\ pc = "idle"
    /\ IF ~OnlyOwner(caller)
       THEN Rejected("transferOwnership", "any", NotOwnerError, ZeroId)
       ELSE IF newOwner = ZeroAddress
       THEN Rejected("transferOwnership", "any", "Ownable: new owner is the zero address", ZeroId)
       ELSE /\ owner' = newOwner
            /\ UNCHANGED <<adminCfg, paused, tokenConfigs, st>>
            /\ AdminDone

\* Ownable.renounceOwnership(): the owner becomes address(0)
RenounceOwnership(caller) ==
    /\ pc = "idle"
    /\ IF ~OnlyOwner(caller)
       THEN Rejected("renounceOwnership", "any", NotOwnerError, ZeroId)
       ELSE /\ owner' = ZeroAddress
            /\ UNCHANGED <<adminCfg, paused, tokenConfigs, st>>
            /\ AdminDone

\* pause(): _pause() requires not paused
Pause(caller) ==
    /\ pc = "idle"
    /\ IF ~OnlyOwner(caller)
       THEN Rejected("pause", "any", NotOwnerError, ZeroId)
       ELSE IF paused
       THEN Rejected("pause", "any", "Pausable: paused", ZeroId)
       ELSE /\ paused' = TRUE
            /\ lastResult' = NoResult
            /\ pre' = st
            /\ UNCHANGED <<adminCfg, lenderFee, calc, offchain, owner, reentrancyStatus, tokenConfigs, blockNo, st, pc, call,
                           loanSnap, frames, execCount>>

Unpause(caller) ==
    /\ pc = "idle"
    /\ IF ~OnlyOwner(caller)
       THEN Rejected("unpause", "any", NotOwnerError, ZeroId)
       ELSE IF ~paused
       THEN Rejected("unpause", "any", "Pausable: not paused", ZeroId)
       ELSE /\ paused' = FALSE
            /\ lastResult' = NoResult
            /\ pre' = st
            /\ UNCHANGED <<adminCfg, lenderFee, calc, offchain, owner, reentrancyStatus, tokenConfigs, blockNo, st, pc, call,
                           loanSnap, frames, execCount>>

\* emergencyWithdraw(token): the whole balance goes to the owner
EmergencyWithdraw(caller, token) ==
    /\ pc = "idle"
    /\ IF ~OnlyOwner(caller)
       THEN Rejected("emergencyWithdraw", "any", NotOwnerError, ZeroId)
       ELSE IF token = ZeroAddress
       THEN Rejected("emergencyWithdraw", "any", "InvalidSetup(7)", ZeroId)
       ELSE /\ st' = [st EXCEPT !.balance[token] = 0]
            /\ lastResult' = NoResult
            /\ pre' = st'
            /\ UNCHANGED <<adminCfg, lenderFee, calc, offchain, owner, paused, reentrancyStatus, tokenConfigs, blockNo, pc, call,
                           loanSnap, frames, execCount>>

\* ------------------------------------------------------------ environment
\* the owner lets the contract pull `amount` of `token` from the owner's wallet
OwnerApproves(token, amount) ==
    /\ pc = "idle"
    /\ st.ownerFunds[token] # amount
    /\ st' = [st EXCEPT !.ownerFunds[token] = amount]
    /\ pre' = st'
    /\ lastResult' = NoResult
    /\ UNCHANGED <<adminCfg, lenderFee, calc, offchain, owner, paused, reentrancyStatus, tokenConfigs, blockNo, pc, call,
                   loanSnap, frames, execCount>>

\* an account sends one unit of `token` to the contract
Deposit(token) ==
    /\ pc = "idle"
    /\ st.balance[token] < MaxBalance
    /\ st' = [st EXCEPT !.balance[token] = @ + 1]
    /\ pre' = st'
    /\ lastResult' = NoResult
    /\ UNCHANGED <<adminCfg, lenderFee, calc, offchain, owner, paused, reentrancyStatus, tokenConfigs,
                   blockNo, pc, call, loanSnap, frames, execCount>>

\* a new block: block.number and block.timestamp move on
NewBlock ==
    /\ pc = "idle"
    /\ blockNo < MaxBlock
    /\ blockNo' = blockNo + 1
    /\ pre' = st
    /\ lastResult' = NoResult
    /\ UNCHANGED <<adminCfg, lenderFee, calc, offchain, owner, paused, reentrancyStatus, tokenConfigs, st, pc, call,
                   loanSnap, frames, execCount>>

\* the ids receiveFlashLoan is called with: the stored ones, the zero id
\* and one under which nothing was ever stored
CallbackIds == DOMAIN st.flashLoanContexts \cup {ZeroId, UnknownId}

\* the parameters an outside caller hands to executeArbitrageWrapper: a copy
\* of a stored context, or well-formed parameters of its own
WrapperParams ==
    {FlashLoanContextOf(st, id) : id \in DOMAIN st.flashLoanContexts}
      \cup {[sourceToken |-> "tokenA", targetToken |-> "tokenB", amount |-> MaxAmount,
              firstRouter |-> "router1", secondRouter |-> "router2", testMode |-> TRUE,
              expectedFirstOutput |-> 1, expectedSecondOutput |-> 0,
              executionId |-> UnknownId]}

Next ==
    \/ \E sender \in ExecutionSenders, src \in Tokens, tgt \in Tokens, amount \in Amounts,
          r \in RouterPairs, testMode \in BOOLEAN, e \in ExpectedPairs :
          ExecuteFlashLoanArbitrage(sender, src, tgt, amount, r[1], r[2], testMode, e[1], e[2])
    \/ \E kind \in {"Error", "Panic", "LowLevel"} : FlashLoanFails(kind)
    \/ \E caller \in NonLenders \cup {balancerVault}, id \in CallbackIds :
          ReceiveFlashLoan(caller, id)
    \/ \E caller \in WrapperCallers, p \in WrapperParams : ExecuteArbitrageWrapper(caller, p)
    \/ FirstSwapFails
    \/ \E nb \in [Tokens -> 0 .. MaxBalance] : FirstSwapReturns(nb)
    \/ SecondSwapFails
    \/ \E nb \in [Tokens -> 0 .. MaxBalance] : SecondSwapReturns(nb)
    \/ \E caller \in AdminCallers, token \in ConfigurableTokens : ConfigureToken(caller, token, MaxAmount + 1, 0, 18)
    \/ \E caller \in AdminCallers : Pause(caller)
    \/ \E caller \in AdminCallers : Unpause(caller)
    \/ \E caller \in AdminCallers : TriggerCircuitBreaker(caller)
    \/ \E caller \in AdminCallers, token \in Tokens : EmergencyWithdraw(caller, token)
    \/ \E token \in ConfigurableTokens, amount \in 0 .. MaxAmount : OwnerApproves(token, amount)
    \/ NewBlock

Spec == Init /\ [][Next]_vars

\* the same contract behind a lender that charges a fee of 0 .. MaxFee per loan
FeeInit == \E fee \in 0 .. MaxFee : InitWith(fee, NoCalc)

FeeSpec == FeeInit /\ [][Next]_vars

\* the ids with a completed FlashLoanEvent: the callback ran the engine with
\* them and returned
CompletedIds(s) ==
    {s.events[i].executionId : i \in {j \in 1 .. Len(s.events) :
        s.events[j].event = "FlashLoanEvent" /\ s.events[j].eventType = 2}}

\* the lender calls back once more with the userData of a loan whose callback
\* has completed
SecondCallback(executionId) ==
    /\ executionId \in CompletedIds(st)
    /\ ReceiveFlashLoan(balancerVault, executionId)

ReplayNext == Next \/ \E id \in CompletedIds(st) : SecondCallback(id)

\* the executions behind the zero-fee lender, with repeated callbacks
ReplaySpec == Init /\ [][ReplayNext]_vars

\* the same contract behind a lender whose fee may exceed the largest profit
HighFeeInit == \E fee \in 0 .. MaxFee + 1 : InitWith(fee, NoCalc)

HighFeeSpec == HighFeeInit /\ [][Next]_vars

\* ------------------------------------------- the profit computation alone
\* the profit computation of the engine applied to any pair of balances
ComputeTradeProfit ==
    /\ ~calc.done
    /\ calc' = [calc EXCEPT
          !.tradeProfit = TradeProfitOf(calc.initialAccountBalance, calc.finalAccountBalance),
          !.panicked = TradeProfitPanics(calc.initialAccountBalance, calc.finalAccountBalance),
          !.done = TRUE]
    /\ UNCHANGED <<owner, paused, reentrancyStatus, tokenConfigs, blockNo, st, pc, call,
                   loanSnap, frames, pre, lastResult, execCount, adminCfg, lenderFee, offchain>>

ProfitInit ==
    \E initialAccountBalance \in 0 .. MAX_UINT256, finalAccountBalance \in 0 .. MAX_UINT256 :
        InitWith(FlashLoanFee(MaxAmount),
                 [NoCalc EXCEPT !.initialAccountBalance = initialAccountBalance,
                                !.finalAccountBalance = finalAccountBalance])

ProfitSpec == ProfitInit /\ [][ComputeTradeProfit]_vars

\* the same contract with an owner who may also give a token a range of trade
\* sizes that lies above the requested amounts
LimitNext ==
    \/ Next
    \/ \E caller \in AdminCallers, token \in ConfigurableTokens :
          ConfigureToken(caller, token, MaxAmount + 2, MaxAmount + 1, 18)

LimitSpec == Init /\ [][LimitNext]_vars

\* ---------------------------------- the end of an engine run taken alone
\* balances the engine may read before and after the legs
BalanceSamples == {0, 1, MAX_UINT256}

\* the engine's code after the leg-2 call (profit, expected profit, metrics,
\* event), run in test mode on any expected output, amount and balances
ComputeExpectedProfit ==
    /\ ~calc.done
    /\ LET p == [sourceToken |-> "tokenA", targetToken |-> "tokenB", amount |-> calc.amount,
                 firstRouter |-> "router1", secondRouter |-> "router2", testMode |-> TRUE,
                 expectedFirstOutput |-> 0,
                 expectedSecondOutput |-> calc.expectedSecondOutput,
                 executionId |-> UnknownId]
           s == [InitState EXCEPT !.balance["tokenA"] = calc.finalAccountBalance]
           eng == EngineAfterSecondSwap(s, p, calc.initialAccountBalance)
           logged == eng.s.events[Len(eng.s.events)]
       IN calc' = [calc EXCEPT
             !.tradeProfit = logged.profit,
             !.expectedProfit = logged.expectedProfit,
             !.panicked = ExpectedProfitPanics(calc.expectedSecondOutput,
                                               safeToInt256(calc.amount)),
             !.done = TRUE]
    /\ UNCHANGED <<owner, paused, reentrancyStatus, tokenConfigs, blockNo, st, pc, call,
                   loanSnap, frames, pre, lastResult, execCount, adminCfg, lenderFee, offchain>>

ExpectedInit ==
    \E expectedSecondOutput \in MIN_INT256 .. MAX_INT256, amount \in 0 .. MAX_UINT256,
       initialAccountBalance \in BalanceSamples, finalAccountBalance \in BalanceSamples :
        InitWith(FlashLoanFee(MaxAmount),
                 [NoCalc EXCEPT !.expectedSecondOutput = expectedSecondOutput,
                                !.amount = amount,
                                !.initialAccountBalance = initialAccountBalance,
                                !.finalAccountBalance = finalAccountBalance])

ExpectedSpec == ExpectedInit /\ [][ComputeExpectedProfit]_vars

\* getContractStats() read in state s: totalTrades, successfulTrades,
\* failedTrades, successRate, cumulativeProfit
GetContractStats(s) ==
    LET totalTrades == s.metrics.totalExecutions
        successfulTrades == s.metrics.successfulExecutions
    IN <<totalTrades,
         successfulTrades,
         IF totalTrades > successfulTrades THEN totalTrades - successfulTrades ELSE 0,
         IF totalTrades > 0 THEN (successfulTrades * 10000) \div totalTrades ELSE 0,
         s.metrics.totalProfit>>

\* ------------------------------------------------------ off-chain helpers
\* the contract's state, which the off-chain helpers modelled here do not touch
contractVars ==
    <<owner, paused, reentrancyStatus, tokenConfigs, blockNo, st, pc, call, loanSnap,
      frames, pre, lastResult, execCount, adminCfg, lenderFee, calc>>

\* what a poll of publicClient.getTransactionReceipt can end with: a receipt
\* with status 'success' or 'reverted', no receipt, or a rejected promise
PollOutcomes == {"success", "reverted", "null", "throws"}

\* variant of the receipt test that takes any receipt as a confirmation
ReceiptConfirmsAny(outcome) == outcome \in {"success", "reverted"}

\* receipt && receipt.status === 'success'
ReceiptConfirms(outcome) == outcome = "success"

\* setTimeout(resolve, ms): Node runs a timer of less than 1 ms after 1 ms
TimerDelay(ms) == IF ms < 1 THEN 1 ELSE ms

\* waitForTransactionConfirmation(hash, publicClient, timeoutMs, pollingInterval)
\* is called: startTime = performance.now()
WaitStart(timeoutMs, pollingInterval) ==
    /\ confirmation.at = "idle"
    /\ confirmation' = [NoConfirmation EXCEPT !.at = "loop", !.timeoutMs = timeoutMs,
                                              !.pollingInterval = pollingInterval]
    /\ UNCHANGED <<contractVars, tokenScript, tracker>>

\* the loop test performance.now() - startTime < timeoutMs: the next poll is
\* sent, or the function logs the timeout and returns false
WaitLoop ==
    /\ confirmation.at = "loop"
    /\ confirmation' =
          IF confirmation.elapsed < confirmation.timeoutMs
          THEN [confirmation EXCEPT
                  !.at = "polling",
                  !.polls = Append(@, [startedAt |-> confirmation.elapsed,
                                       outcome |-> "pending"])]
          ELSE [confirmation EXCEPT !.at = "done", !.returned = "false"]
    /\ UNCHANGED <<contractVars, tokenScript, tracker>>

\* the pending poll settles with `outcome` after `duration`: a confirming
\* receipt returns true; anything else, a rejection included (it is caught and
\* logged), goes on to the sleep
PollSettles(outcome, duration) ==
    /\ confirmation.at = "polling"
    /\ confirmation' =
          [confirmation EXCEPT
             !.elapsed = @ + duration,
             !.polls[Len(confirmation.polls)].outcome = outcome,
             !.at = IF ReceiptConfirms(outcome) THEN "done" ELSE "sleeping",
             !.returned = IF ReceiptConfirms(outcome) THEN "true" ELSE @]
    /\ UNCHANGED <<contractVars, tokenScript, tracker>>

\* await sleep(pollingInterval) ends, `late` after the timer was due
SleepEnds(late) ==
    /\ confirmation.at = "sleeping"
    /\ confirmation' = [confirmation EXCEPT
                          !.elapsed = @ + TimerDelay(confirmation.pollingInterval) + late,
                          !.at = "loop"]
    /\ UNCHANGED <<contractVars, tokenScript, tracker>>

WaitNext ==
    \/ \E timeoutMs \in 0 .. MaxTimeout, pollingInterval \in 0 .. MaxInterval :
          WaitStart(timeoutMs, pollingInterval)
    \/ WaitLoop
    \/ \E outcome \in PollOutcomes, duration \in 0 .. MaxPollTime : PollSettles(outcome, duration)
    \/ \E late \in 0 .. 1 : SleepEnds(late)

\* every poll settles and every timer fires: the event loop keeps running
WaitSpec == Init /\ [][WaitNext]_vars /\ WF_vars(WaitNext)

\* ------------------------------------------- scripts/configureTokens.js
\* what publicClient.waitForTransactionReceipt can do: resolve with a receipt
\* of status 'success' or 'reverted', resolve without a receipt, or reject
\* (timeout, transport error)
ReceiptWaitOutcomes == {"success", "reverted", "null", "throws"}

\* configureToken (script helper) is called: writeContract sends the
\* transaction or rejects; a rejection reaches the outer catch, which logs it
\* and throws it again
ScriptStart(sent) ==
    /\ tokenScript.at \in {"idle", "done"}
    /\ tokenScript' =
          IF sent
          THEN [NoTokenScript EXCEPT !.at = "loop"]
          ELSE [NoTokenScript EXCEPT !.at = "done", !.outcome = "thrown",
                                     !.error = "writeContract"]
    /\ UNCHANGED <<contractVars, confirmation, tracker>>

\* the loop test !receipt && attempts < maxAttempts: the next wait is started,
\* or the loop is left and the configuration is logged as successful (reading
\* the fields of a missing receipt throws a TypeError)
ScriptLoop ==
    /\ tokenScript.at = "loop"
    /\ tokenScript' =
          IF tokenScript.receipt = "null" /\ tokenScript.attempts < MAX_RETRY_ATTEMPTS
          THEN [tokenScript EXCEPT !.at = "waiting"]
          ELSE IF tokenScript.receipt = "null"
          THEN [tokenScript EXCEPT !.at = "done", !.outcome = "thrown",
                                   !.error = "TypeError"]
          ELSE [tokenScript EXCEPT !.at = "verifying", !.loggedSuccess = TRUE]
    /\ UNCHANGED <<contractVars, confirmation, tracker>>

\* waitForTransactionReceipt settles.  What it resolves with is assigned to
\* receipt before the status is tested; a status other than 'success', a
\* missing receipt (TypeError on receipt.status) and a rejection all reach the
\* catch clause, which counts the attempt, throws at maxAttempts and sleeps
\* otherwise
ReceiptWaitSettles(outcome) ==
    /\ tokenScript.at = "waiting"
    /\ LET receipt == IF outcome = "throws" THEN tokenScript.receipt ELSE outcome
           attempts == tokenScript.attempts + 1
           waited == [tokenScript EXCEPT !.receipt = receipt,
                                         !.waits = Append(@, outcome)]
       IN tokenScript' =
             IF outcome = "success"
             THEN [waited EXCEPT !.at = "loop"]
             ELSE IF attempts >= MAX_RETRY_ATTEMPTS
             THEN [waited EXCEPT !.attempts = attempts, !.at = "done",
                                 !.outcome = "thrown",
                                 !.error = "Failed to get receipt"]
             ELSE [waited EXCEPT !.attempts = attempts, !.at = "sleeping"]
    /\ UNCHANGED <<contractVars, confirmation, tracker>>

\* await sleep(RETRY_DELAY) ends
RetrySleepEnds ==
    /\ tokenScript.at = "sleeping"
    /\ tokenScript' = [tokenScript EXCEPT !.at = "loop"]
    /\ UNCHANGED <<contractVars, confirmation, tracker>>

\* the getTokenConfig read-back settles (a failure is caught and logged), the
\* fixed delay passes and the receipt is returned
VerifySettles(verified) ==
    /\ tokenScript.at = "verifying"
    /\ tokenScript' = [tokenScript EXCEPT !.at = "done", !.outcome = "returned"]
    /\ UNCHANGED <<contractVars, confirmation, tracker>>

ScriptNext ==
    \/ \E sent \in BOOLEAN : ScriptStart(sent)
    \/ ScriptLoop
    \/ \E outcome \in ReceiptWaitOutcomes : ReceiptWaitSettles(outcome)
    \/ RetrySleepEnds
    \/ \E verified \in BOOLEAN : VerifySettles(verified)

\* runs of the token-configuration helper
ScriptSpec == Init /\ [][ScriptNext]_vars

\* ------------------------------------------------- TransactionTracker
\* the values addTransaction is called with: transaction hashes, and undefined
Undefined == "undefined"
TrackedHashes == {"0xa1", "0xa2", "0xa3", "0xa4", "0xa5", Undefined}

MaximumExceeded == "Maximum transaction count exceeded"

\* variant of the size check that lets one more hash in (> for >=)
TrackerFullAbove(t) == Cardinality(t.transactions) > t.maxTransactions

\* this.transactions.size >= this.maxTransactions
TrackerFull(t) == Cardinality(t.transactions) >= t.maxTransactions

\* addTransaction(hash) on tracker t: a full tracker throws before it touches
\* the set; otherwise the hash joins the set (a Set holds a value once) and
\* the debug log calls hash.toString(), a TypeError for undefined
AddTransactionTo(t, hash) ==
    IF TrackerFull(t)
    THEN [t EXCEPT !.called = <<"addTransaction", hash>>, !.thrown = MaximumExceeded]
    ELSE [t EXCEPT !.transactions = @ \cup {hash},
                   !.called = <<"addTransaction", hash>>,
                   !.thrown = IF hash = Undefined THEN "TypeError" ELSE "none"]

\* clear() on tracker t
ClearTracker(t) ==
    [t EXCEPT !.transactions = {}, !.called = <<"clear">>, !.thrown = "none"]

AddTransaction(hash) ==
    /\ tracker' = AddTransactionTo(tracker, hash)
    /\ UNCHANGED <<contractVars, confirmation, tokenScript>>

Clear ==
    /\ tracker' = ClearTracker(tracker)
    /\ UNCHANGED <<contractVars, confirmation, tokenScript>>

TrackerNext ==
    \/ \E hash \in TrackedHashes : AddTransaction(hash)
    \/ Clear

\* every sequence of calls on one TransactionTracker
TrackerSpec == Init /\ [][TrackerNext]_vars

\* ------------------------------------------------ the administrative surface
\* every owner-only operation, called by the deployer and by another account,
\* with inputs that reach each of its checks
AdminSpecCallers == {Owner, User}
FeeTierLists == {<<100, 500, 3000>>, <<MAX_BPS>>, <<100, 500, 3000, MAX_BPS>>}
GasUsages == {3000000}
RouterAddresses == {ZeroAddress, "router1"}
ReferencePairs == {<<ZeroAddress, ZeroAddress>>, <<"router1", "router2">>}
TokenAddresses == ConfigurableTokens \cup {ZeroAddress}

AdminNext ==
    \/ \E caller \in AdminSpecCallers, dexName \in DexNames \cup {""}, router \in RouterAddresses,
          maxGasUsage \in GasUsages, tiers \in FeeTierLists :
          ConfigureDex(caller, dexName, router, 30, maxGasUsage, tiers)
    \/ \E caller \in AdminSpecCallers, pool \in Pools \cup {ZeroAddress}, fee \in {30, MAX_BPS},
          dexName \in DexNames \cup {""} : ConfigurePool(caller, pool, fee, 1, dexName)
    \/ \E caller \in AdminSpecCallers, token \in TokenAddresses, maxAmount \in {0, MaxAmount + 1},
          decimals \in {18, 19} : ConfigureToken(caller, token, maxAmount, 0, decimals)
    \/ \E caller \in AdminSpecCallers, dexName \in DexNames, isEnabled \in BOOLEAN :
          SetDexEnabled(caller, dexName, isEnabled)
    \/ \E caller \in AdminSpecCallers, token \in TokenAddresses, isEnabled \in BOOLEAN :
          SetTokenEnabled(caller, token, isEnabled)
    \/ \E caller \in AdminSpecCallers, token \in ConfigurableTokens, amount \in {0, MaxAmount} :
          ApproveRouter(caller, token, "router1", amount)
    \/ \E caller \in AdminSpecCallers, r \in ReferencePairs : SetRouterAddresses(caller, r[1], r[2])
    \/ \E caller \in AdminSpecCallers : Pause(caller)
    \/ \E caller \in AdminSpecCallers : Unpause(caller)
    \/ \E caller \in AdminSpecCallers : TriggerCircuitBreaker(caller)
    \/ \E caller \in AdminSpecCallers, token \in TokenAddresses : EmergencyWithdraw(caller, token)
    \/ \E caller \in AdminSpecCallers, token \in TokenAddresses, amount \in 0 .. MaxAmount + 1 :
          WithdrawFunds(caller, token, amount)
    \/ \E caller \in AdminSpecCallers, newOwner \in AdminSpecCallers \cup {ZeroAddress} :
          TransferOwnership(caller, newOwner)
    \/ \E caller \in AdminSpecCallers : RenounceOwnership(caller)
    \/ \E token \in ConfigurableTokens : Deposit(token)

AdminSpec == Init /\ [][AdminNext]_vars

\* ------------------------------------------ DEXes and their pools taken alone
\* the calls that write DEX and pool configs, with two routers to choose from
PoolRouters == {ZeroAddress, "router1", "router2"}
PoolFees == {30, 500, MAX_BPS}

PoolNext ==
    \/ \E caller \in AdminSpecCallers, dexName \in DexNames \cup {""}, router \in PoolRouters,
          maxGasUsage \in GasUsages, tiers \in FeeTierLists :
          ConfigureDex(caller, dexName, router, 30, maxGasUsage, tiers)
    \/ \E caller \in AdminSpecCallers, pool \in Pools \cup {ZeroAddress}, fee \in PoolFees,
          dexName \in DexNames \cup {""} : ConfigurePool(caller, pool, fee, 1, dexName)
    \/ \E caller \in AdminSpecCallers, dexName \in DexNames, isEnabled \in BOOLEAN :
          SetDexEnabled(caller, dexName, isEnabled)

PoolSpec == Init /\ [][PoolNext]_vars

\* ------------------------------------------------- token configs taken alone
\* the calls that write token configs, with every pair of amount bounds and
\* decimals on both sides of each limit
TokenBounds == 0 .. MaxAmount + 1
TokenDecimals == {0, 6, 12, 18, 19}

TokenNext ==
    \/ \E caller \in AdminSpecCallers, token \in TokenAddresses, maxAmount \in TokenBounds,
          minAmount \in TokenBounds, decimals \in TokenDecimals :
          ConfigureToken(caller, token, maxAmount, minAmount, decimals)
    \/ \E caller \in AdminSpecCallers, token \in TokenAddresses, isEnabled \in BOOLEAN :
          SetTokenEnabled(caller, token, isEnabled)

TokenSpec == Init /\ [][TokenNext]_vars

\* ================================================================ properties
\* the ArbitrageExecuted events in a state's log
ArbitrageEvents(s) == SelectSeq(s.events, LAMBDA e : e.event = "ArbitrageExecuted")

EngineMetricsUnchanged(s, t) ==
    /\ s.metrics.totalExecutions = t.metrics.totalExecutions
    /\ s.metrics.successfulExecutions = t.metrics.successfulExecutions
    /\ s.metrics.totalProfit = t.metrics.totalProfit

\* C1 (profit gate): every ArbitrageExecuted event in the log with testMode
\* false carries a tradeProfit > 0; and when leg 2 returns in a run with
\* testMode false whose realised profit is <= 0, the engine fails with
\* InsufficientProfit and the transaction commits no ArbitrageExecuted event,
\* no change of totalExecutions, successfulExecutions or totalProfit, and no
\* executed mark for the id.
C1_ProfitGate ==
    [][ /\ \A i \in 1 .. Len(st'.events) :
              (st'.events[i].event = "ArbitrageExecuted" /\ ~st'.events[i].testMode)
                  => st'.events[i].profit > 0
        /\ \A nb \in [Tokens -> 0 .. MaxBalance] :
              ( /\ pc = "inRouter"
                /\ frames[1].leg = 2
                /\ ~frames[1].params.testMode
                /\ TradeProfitOf(frames[1].initialAccountBalance,
                                 nb[frames[1].params.sourceToken]) <= 0
                /\ SecondSwapReturns(nb) )
              => /\ lastResult'.engine = "InsufficientProfit"
                 /\ ArbitrageEvents(st') = ArbitrageEvents(pre)
                 /\ EngineMetricsUnchanged(st', pre)
                 /\ frames[1].params.executionId \notin st'.executedTrades
                 /\ ~TradeContextOf(st', frames[1].params.executionId).executed
      ]_vars

\* C1 witness: a run without test mode was accepted and its event is in the
\* log, and the latest run was turned down by the profit gate
C1_Witness ==
    /\ pc = "idle"
    /\ lastResult.engine = "InsufficientProfit"
    /\ \E i \in 1 .. Len(st.events) :
          st.events[i].event = "ArbitrageExecuted" /\ ~st.events[i].testMode

\* C2 (replay protection regardless of outcome), as the specification states
\* it: when the lender's callback runs the engine with an id the engine has
\* been run with before (a completed FlashLoanEvent for the id is in the log),
\* this run fails with InvalidExecutionId, whether the first run was accepted
\* or failed.
C2_ReplayRegardlessOfOutcome ==
    [][ \A id \in CompletedIds(st) :
          (pc = "inVault" /\ ReceiveFlashLoan(balancerVault, id))
              => lastResult'.engine = "InvalidExecutionId"
      ]_vars

\* C3 (executed marks are permanent): an id marked executed in the committed
\* state stays marked in every later state; an engine run with a marked id
\* fails with InvalidExecutionId before any approval or router call; and the
\* log never holds two ArbitrageExecuted events for one id.
C3_ExecutedIsPermanent ==
    [][ /\ pre.executedTrades \subseteq st'.executedTrades
        /\ pre.executedTrades \subseteq pre'.executedTrades
        /\ \A id \in st.executedTrades :
              (pc = "inVault" /\ ReceiveFlashLoan(balancerVault, id))
                  => /\ lastResult'.engine = "InvalidExecutionId"
                     /\ pc' = "idle"
                     /\ st'.allowance = pre.allowance
                     /\ st'.balance = pre.balance
        /\ \A i, j \in 1 .. Len(st'.events) :
              ( /\ st'.events[i].event = "ArbitrageExecuted"
                /\ st'.events[j].event = "ArbitrageExecuted"
                /\ st'.events[i].executionId = st'.events[j].executionId ) => i = j
      ]_vars

\* C3 witness: an engine run with an id already marked executed was refused
C3_Witness ==
    /\ lastResult.engine = "InvalidExecutionId"
    /\ lastResult.id \in st.executedTrades
    /\ Len(ArbitrageEvents(st)) = 1

\* the engine failures raised by a swap leg
LegFailures == {"FirstSwapFailed", "SecondSwapFailed"}
SwapFailures == LegFailures \cup {"NoIntermediateTokens"}

\* the step that ends a top-level executeFlashLoanArbitrage
Completes == pc # "idle" /\ pc' = "idle"

C6_LoanFailureIsNotFatal ==
    [][ (Completes /\ lastResult'.loan = "failed")
          => /\ lastResult'.status = "returned"
             /\ st'.metrics = [pre.metrics EXCEPT
                                 !.flashLoanFailed = @ + 1,
                                 !.flashLoanExecutions = @ + 1]
             /\ ~HasFlashLoanContext(st', call.params.executionId)
             /\ st'.flashLoanContexts = pre.flashLoanContexts
             /\ lastResult'.returned = st'.balance[call.params.sourceToken]
             /\ st'.balance = pre.balance
             /\ st'.allowance = pre.allowance
             /\ st'.ownerFunds = pre.ownerFunds
             /\ st'.executedTrades = pre.executedTrades
             /\ st'.tradeContexts = pre.tradeContexts
      ]_vars

\* C6 witness: a loan failed through a revert inside the callback, after
\* another had failed at the lender
C6_Witness ==
    /\ pc = "idle"
    /\ lastResult.loan = "failed"
    /\ lastResult.error = "TestModeShortfall"
    /\ st.metrics.flashLoanFailed = 2

\* C7 (FlashLoanContext lifetime): between top-level transactions no
\* FlashLoanContext is stored; during one, only the context of its own id.
C7_NoContextBetweenTransactions ==
    /\ pc = "idle" => DOMAIN st.flashLoanContexts = {}
    /\ pc # "idle" => DOMAIN st.flashLoanContexts = {call.params.executionId}

\* C7 witness: a transaction that stored a context has ended with the loan
\* repaid, after one that ended with the loan failed
C7_Witness ==
    /\ pc = "idle"
    /\ lastResult.loan = "repaid"
    /\ st.metrics.flashLoanFailed = 1
    /\ DOMAIN st.flashLoanContexts = {}

\* C8 (TradeContext immutability), as the specification states it: a trade
\* context that is executed in the committed state before a transaction is
\* field for field the same in the committed state after it.
C8_ExecutedContextImmutable ==
    [][ pc' = "idle"
          => \A id \in DOMAIN pre.tradeContexts :
                pre.tradeContexts[id].executed
                    => TradeContextOf(st', id) = pre.tradeContexts[id]
      ]_vars

\* an executeFlashLoanArbitrage call by the modelled sender and routers
ExecuteCalled(src, tgt, amount, testMode) ==
    \E sender \in ExecutionSenders, r \in RouterPairs, e \in ExpectedPairs :
        ExecuteFlashLoanArbitrage(sender, src, tgt, amount, r[1], r[2], testMode, e[1], e[2])

\* a call that failed with `error` and left the contract as it was: no context
\* stored, no metric, event, balance or allowance changed, no call made
FailedWithoutEffect(error) ==
    /\ lastResult'.status = "reverted"
    /\ lastResult'.error = error
    /\ UNCHANGED <<adminCfg, lenderFee, calc, offchain, owner, paused, reentrancyStatus, tokenConfigs, st, pc, call, loanSnap,
                   frames>>

\* C9 (validation fails fast), as the specification states it: a call with
\* sourceToken = targetToken fails with InvalidTokens, a call with amount = 0
\* fails with ZeroAmount, a call with a source token that is not enabled fails
\* with DisabledToken, each without effect.
C9_EachInvalidInputHasItsError ==
    [][ \A src \in Tokens, tgt \in Tokens, amount \in Amounts, testMode \in BOOLEAN :
          ExecuteCalled(src, tgt, amount, testMode)
            => /\ src = tgt => FailedWithoutEffect("InvalidTokens")
               /\ amount = 0 => FailedWithoutEffect("ZeroAmount")
               /\ ~tokenConfigs[src].isEnabled => FailedWithoutEffect("DisabledToken")
      ]_vars

\* C9 as the code has it: on a contract that is not paused and not inside an
\* execution, the checks run in order and the first that fails decides the
\* error: sourceToken = targetToken fails with InvalidTokens; otherwise
\* amount = 0 fails with ZeroAmount; otherwise a source token that is not
\* enabled fails with DisabledToken.  On a paused or entered contract the call
\* fails with the guard's error.  In every case the call is without effect.
C9_FirstFailedCheckDecides ==
    [][ \A src \in Tokens, tgt \in Tokens, amount \in Amounts, testMode \in BOOLEAN :
          ExecuteCalled(src, tgt, amount, testMode)
            => IF reentrancyStatus = "ENTERED"
               THEN FailedWithoutEffect("ReentrancyGuard: reentrant call")
               ELSE IF paused THEN FailedWithoutEffect("Pausable: paused")
               ELSE IF src = tgt THEN FailedWithoutEffect("InvalidTokens")
               ELSE IF amount = 0 THEN FailedWithoutEffect("ZeroAmount")
               ELSE IF ~tokenConfigs[src].isEnabled THEN FailedWithoutEffect("DisabledToken")
               ELSE pc' = "inVault"
      ]_vars

\* C9 witness: a call was turned down for its amount although its source
\* token is not enabled either
C9_Witness ==
    /\ lastResult.op = "executeFlashLoanArbitrage"
    /\ lastResult.error = "ZeroAmount"
    /\ \A tok \in Tokens : ~tokenConfigs[tok].isEnabled
    /\ st = InitState

\* C10 (callback authentication): receiveFlashLoan called by anyone but the
\* lender fails with UnauthorizedCaller and is without effect, whether or not
\* an execution is in flight and whatever id the user data carries.
C10_OnlyLenderCallsBack ==
    [][ \A caller \in NonLenders, id \in CallbackIds :
          ReceiveFlashLoan(caller, id) => FailedWithoutEffect("UnauthorizedCaller")
      ]_vars

\* C10 witness: during an execution somebody else called receiveFlashLoan with
\* the id of the stored context, and was turned down
C10_Witness ==
    /\ pc = "inVault"
    /\ lastResult.op = "receiveFlashLoan"
    /\ lastResult.error = "UnauthorizedCaller"
    /\ lastResult.id = call.params.executionId
    /\ HasFlashLoanContext(st, lastResult.id)

\* C11 (unknown execution id is rejected): for every execution id, the zero
\* id included, a receiveFlashLoan call by the lender whose userData decodes
\* to an id with no stored FlashLoanContext fails with InvalidExecutionId,
\* before the engine is invoked and before any repayment logic runs.
C11_UnknownIdIsRejected ==
    [][ \A id \in CallbackIds :
          (~HasFlashLoanContext(st, id) /\ ReceiveFlashLoan(balancerVault, id))
            => /\ FailedWithoutEffect("InvalidExecutionId")
               /\ lastResult'.engine = "none" ]_vars

\* C12 (the engine runs only inside the flash-loan envelope):
\* executeArbitrageWrapper called by anyone but the contract itself fails with
\* "Unauthorized" and changes nothing; a leg router call is entered only from
\* the lender's receiveFlashLoan callback of the execution in flight (leg 1) or
\* from leg 1 of the same engine run (leg 2), and while a router call is open a
\* top-level executeFlashLoanArbitrage holds the reentrancy lock and the
\* context of the running id is stored.
C12_EngineOnlyInsideFlashLoan ==
    [][ /\ \A caller \in WrapperCallers, p \in WrapperParams :
              ExecuteArbitrageWrapper(caller, p) => FailedWithoutEffect("Unauthorized")
        /\ (pc # "inRouter" /\ pc' = "inRouter")
              => /\ pc = "inVault"
                 /\ ReceiveFlashLoan(balancerVault, call.params.executionId)
        /\ pc' = "inRouter"
              => /\ call'.op = "executeFlashLoanArbitrage"
                 /\ reentrancyStatus' = "ENTERED"
                 /\ frames'[1].params.executionId = call'.params.executionId
                 /\ HasFlashLoanContext(st', call'.params.executionId) ]_vars

\* a router that an execution is calling tried executeArbitrageWrapper and was
\* turned away; the leg is still open
C12_Witness ==
    /\ pc = "inRouter"
    /\ lastResult.op = "executeArbitrageWrapper"
    /\ lastResult.error = "Unauthorized"
    /\ HasFlashLoanContext(st, call.params.executionId)

\* an owner-only operation called by `caller`, with any of the inputs
AdminCalled(caller) ==
    \/ \E dexName \in DexNames \cup {""}, router \in RouterAddresses,
          maxGasUsage \in GasUsages, tiers \in FeeTierLists :
          ConfigureDex(caller, dexName, router, 30, maxGasUsage, tiers)
    \/ \E pool \in Pools \cup {ZeroAddress}, fee \in {30, MAX_BPS}, dexName \in DexNames \cup {""} :
          ConfigurePool(caller, pool, fee, 1, dexName)
    \/ \E token \in TokenAddresses, maxAmount \in {0, MaxAmount + 1}, decimals \in {18, 19} :
          ConfigureToken(caller, token, maxAmount, 0, decimals)
    \/ \E dexName \in DexNames, isEnabled \in BOOLEAN : SetDexEnabled(caller, dexName, isEnabled)
    \/ \E token \in TokenAddresses, isEnabled \in BOOLEAN : SetTokenEnabled(caller, token, isEnabled)
    \/ \E token \in ConfigurableTokens, amount \in {0, MaxAmount} :
          ApproveRouter(caller, token, "router1", amount)
    \/ \E r \in ReferencePairs : SetRouterAddresses(caller, r[1], r[2])
    \/ Pause(caller)
    \/ Unpause(caller)
    \/ TriggerCircuitBreaker(caller)
    \/ \E token \in TokenAddresses : EmergencyWithdraw(caller, token)
    \/ \E token \in TokenAddresses, amount \in 0 .. MaxAmount + 1 : WithdrawFunds(caller, token, amount)
    \/ \E newOwner \in AdminSpecCallers \cup {ZeroAddress} : TransferOwnership(caller, newOwner)
    \/ RenounceOwnership(caller)

\* C13 (administration is owner-only): configureDex, configurePool,
\* configureToken, setDexEnabled, setTokenEnabled, approveRouter,
\* setRouterAddresses, pause, unpause, triggerCircuitBreaker, emergencyWithdraw,
\* withdrawFunds, transferOwnership and renounceOwnership, called by an account
\* that is not the owner, fail with the Ownable error and leave the
\* configuration, the owner, the pause flag, the storage and the balances as
\* they were; once ownership is renounced the owner stays address(0), so this
\* holds for every caller.
C13_AdminOnlyByOwner ==
    [][ /\ \A caller \in AdminSpecCallers :
              (caller # owner /\ AdminCalled(caller)) => FailedWithoutEffect(NotOwnerError)
        /\ owner = ZeroAddress => owner' = ZeroAddress ]_vars

\* ownership was renounced while the contract held tokens, and the former
\* owner's withdrawal was turned away
C13_Witness ==
    /\ owner = ZeroAddress
    /\ lastResult.op = "withdrawFunds"
    /\ lastResult.error = NotOwnerError
    /\ st.balance["tokenA"] > 0
    /\ adminCfg.dexConfigs["uniswap"].isEnabled

ReentrantCall == "ReentrancyGuard: reentrant call"

\* C14 (reentrancy guard): while an executeFlashLoanArbitrage is in flight the
\* lock is held, so every further executeFlashLoanArbitrage, whatever its
\* arguments, fails the guard and changes nothing; the lock is free between
\* transactions; at most one engine frame is open and at most one
\* FlashLoanContext is stored at any time.
C14_NoNestedExecution ==
    [][ /\ pc # "idle"
            => /\ reentrancyStatus = "ENTERED"
               /\ \A src \in Tokens, tgt \in Tokens, amount \in Amounts :
                     ValidationError(src, tgt, amount) = ReentrantCall
        /\ \A src \in Tokens, tgt \in Tokens, amount \in Amounts, testMode \in BOOLEAN :
              (pc # "idle" /\ ExecuteCalled(src, tgt, amount, testMode))
                 => FailedWithoutEffect(ReentrantCall)
        /\ pc' = "idle" => reentrancyStatus' = "NOT_ENTERED"
        /\ Len(frames') <= 1
        /\ Cardinality(DOMAIN st'.flashLoanContexts) <= 1 ]_vars

\* a nested executeFlashLoanArbitrage, made while a leg's router call was
\* open, was turned away by the guard; the outer execution goes on
C14_Witness ==
    /\ pc = "inRouter"
    /\ lastResult.op = "executeFlashLoanArbitrage"
    /\ lastResult.error = ReentrantCall
    /\ Cardinality(DOMAIN st.flashLoanContexts) = 1

\* C15 (emergency stop): while the contract is paused, by pause or by
\* triggerCircuitBreaker, every executeFlashLoanArbitrage fails with the
\* Pausable error without storing a context, calling the lender or changing a
\* metric; the pause flag is clear and stays clear for as long as an execution
\* is in flight; pause and triggerCircuitBreaker by the owner set the flag and
\* unpause clears it, after which a call with valid arguments passes the
\* validations again.
C15_PauseStopsNewExecutions ==
    [][ /\ \A src \in Tokens, tgt \in Tokens, amount \in Amounts, testMode \in BOOLEAN :
              (paused /\ ExecuteCalled(src, tgt, amount, testMode))
                 => /\ FailedWithoutEffect("Pausable: paused")
                    /\ lastResult'.loan = "none"
        /\ pc # "idle" => ~paused /\ ~paused'
        /\ (~paused /\ (Pause(Owner) \/ TriggerCircuitBreaker(Owner))) => paused'
        /\ (paused /\ Unpause(Owner))
              => /\ ~paused'
                 /\ \A src \in Tokens, tgt \in Tokens, amount \in Amounts :
                       (src # tgt /\ amount > 0 /\ tokenConfigs[src].isEnabled)
                          => ValidationError(src, tgt, amount)' = "none" ]_vars

\* the circuit breaker or pause was set after an execution had run, and the
\* next executeFlashLoanArbitrage was turned away
C15_Witness ==
    /\ paused
    /\ pc = "idle"
    /\ lastResult.op = "executeFlashLoanArbitrage"
    /\ lastResult.error = "Pausable: paused"
    /\ st.metrics.flashLoanExecutions >= 1
    /\ tokenConfigs["tokenA"].isEnabled

\* the completed FlashLoanEvents (eventType 2) logged for `id`
CompletedEvents(s, id) ==
    {i \in 1 .. Len(s.events) :
        /\ s.events[i].event = "FlashLoanEvent"
        /\ s.events[i].eventType = 2
        /\ s.events[i].executionId = id}

\* C16 (the flash loan is repaid in full): whenever the receiveFlashLoan
\* callback of an execution returns without reverting, whether the engine run
\* was accepted or was rolled back, the lender has received exactly
\* amounts[0] + feeAmounts[0] since it sent the loan, exactly one completed
\* FlashLoanEvent for the id has been logged by the transaction, and the
\* FlashLoanContext of the id is deleted.
C16_RepaidInFull ==
    [][ (Completes /\ lastResult'.loan = "repaid")
           => LET id == call.params.executionId
                  src == call.params.sourceToken
                  amount0 == call.params.amount
              IN /\ st'.lenderNet[src] - (pre.lenderNet[src] - amount0) = amount0 + lenderFee
                 /\ \A t \in Tokens \ {src} : st'.lenderNet[t] = pre.lenderNet[t]
                 /\ Cardinality(CompletedEvents(st', id))
                       = Cardinality(CompletedEvents(pre, id)) + 1
                 /\ ~HasFlashLoanContext(st', id)
                 /\ lastResult'.engine \in {"accepted"} \cup SwapFailures
                                             \cup {"InsufficientProfit", "InvalidExecutionId"} ]_vars

\* a callback repaid principal and fee after the engine run had been rolled
\* back by a failed leg
C16_Witness ==
    /\ lenderFee > 0
    /\ pc = "idle"
    /\ lastResult.loan = "repaid"
    /\ lastResult.engine \in LegFailures
    /\ \E t \in Tokens : st.lenderNet[t] = lenderFee
    /\ CompletedEvents(st, lastResult.id) # {}

\* C17 (test-mode loss): when leg 2 of an execution with testMode = true
\* returns and the realised trade profit is negative, the top-level call
\* returns normally.  If the owner's wallet covers the shortfall (repayment
\* minus the contract's source-token balance, when positive), exactly that
\* amount is pulled from it, the lender is repaid principal and fee, and the
\* transaction commits one ArbitrageExecuted event for the id carrying the
\* negative tradeProfit.  If the pull fails, the callback fails with
\* TestModeShortfall: it repays nothing, takes nothing from the owner and
\* commits no ArbitrageExecuted event.
C17_TestModeLoss ==
    [][ \A nb \in [Tokens -> 0 .. MaxBalance] :
          (/\ SecondSwapReturns(nb)
           /\ frames[1].params.testMode
           /\ TradeProfitOf(frames[1].initialAccountBalance,
                            nb[frames[1].params.sourceToken]) < 0)
             => LET p == frames[1].params
                    src == p.sourceToken
                    tradeProfit == TradeProfitOf(frames[1].initialAccountBalance, nb[src])
                    repayAmount == p.amount + lenderFee
                    shortfall == Max(0, repayAmount - nb[src])
                    logged == ArbitrageEvents(st')
                IN /\ lastResult'.status = "returned"
                   /\ IF shortfall <= st.ownerFunds[src]
                      THEN /\ lastResult'.engine = "accepted"
                           /\ lastResult'.loan = "repaid"
                           /\ lastResult'.pulled = shortfall
                           /\ st'.ownerFunds[src] = pre.ownerFunds[src] - shortfall
                           /\ st'.balance[src] = nb[src] + shortfall - repayAmount
                           /\ st'.lenderNet[src] = pre.lenderNet[src] + lenderFee
                           /\ Len(logged) = Len(ArbitrageEvents(pre)) + 1
                           /\ logged[Len(logged)].executionId = p.executionId
                           /\ logged[Len(logged)].profit = tradeProfit
                      ELSE /\ lastResult'.error = "TestModeShortfall"
                           /\ lastResult'.loan = "failed"
                           /\ lastResult'.pulled = 0
                           /\ st'.ownerFunds = pre.ownerFunds
                           /\ st'.lenderNet = pre.lenderNet
                           /\ ArbitrageEvents(st') = ArbitrageEvents(pre) ]_vars

\* a test-mode execution ended with a loss, the shortfall was taken from the
\* owner's wallet and the lender was repaid
C17_Witness ==
    /\ pc = "idle"
    /\ lastResult.engine = "accepted"
    /\ lastResult.loan = "repaid"
    /\ lastResult.pulled > 0
    /\ LET logged == ArbitrageEvents(st)
       IN /\ Len(logged) > 0
          /\ logged[Len(logged)].executionId = lastResult.id
          /\ logged[Len(logged)].testMode
          /\ logged[Len(logged)].profit < 0

\* the step on which the callback of an execution with testMode = false
\* reaches the repayment with a source-token balance below
\* amounts[0] + feeAmounts[0]: after an engine run that was rolled back (the
\* balance is the one the loan left), after one that was accepted (the balance
\* is what leg 2 left), or after one that the replay guard stopped
NonTestShortfall ==
    \/ /\ pc = "inRouter" /\ Completes
       /\ ~frames[1].params.testMode
       /\ lastResult'.engine # "accepted"
       /\ frames[1].snap.balance[frames[1].params.sourceToken]
             < frames[1].params.amount + lenderFee
    \/ /\ pc = "inRouter"
       /\ ~frames[1].params.testMode
       /\ \E nb \in [Tokens -> 0 .. MaxBalance] :
             /\ SecondSwapReturns(nb)
             /\ lastResult'.engine = "accepted"
             /\ nb[frames[1].params.sourceToken] < frames[1].params.amount + lenderFee
    \/ /\ pc = "inVault" /\ Completes
       /\ ReceiveFlashLoan(balancerVault, call.params.executionId)
       /\ ~call.params.testMode
       /\ st.balance[call.params.sourceToken] < lenderFee

\* C18 (non-test-mode repayment shortfall), as the specification states it: the
\* callback fails with InsufficientRepayment without pulling from the owner,
\* and the whole top-level transaction reverts.
C18_ShortfallRevertsTransaction ==
    [][ NonTestShortfall
           => /\ lastResult'.error = "InsufficientRepayment"
              /\ lastResult'.pulled = 0
              /\ lastResult'.status = "reverted"
              /\ st' = pre ]_vars

\* C18, as the code has it: the callback fails with InsufficientRepayment
\* without pulling from the owner, which undoes the loan and everything the
\* callback did; executeFlashLoanArbitrage catches the failure, counts a failed
\* flash loan, deletes the context and returns normally.  InsufficientRepayment
\* occurs in no execution with testMode = true.
C18_ShortfallFailsTheLoan ==
    [][ /\ NonTestShortfall
           => /\ lastResult'.error = "InsufficientRepayment"
              /\ lastResult'.pulled = 0
              /\ lastResult'.loan = "failed"
              /\ lastResult'.status = "returned"
              /\ st'.ownerFunds = pre.ownerFunds
              /\ st'.lenderNet = pre.lenderNet
              /\ st'.balance = pre.balance
              /\ st'.events = loanSnap.events
              /\ st'.executedTrades = pre.executedTrades
              /\ st'.metrics = [pre.metrics EXCEPT !.flashLoanFailed = @ + 1,
                                                   !.flashLoanExecutions = @ + 1]
              /\ ~HasFlashLoanContext(st', call.params.executionId)
        /\ (Completes /\ lastResult'.error = "InsufficientRepayment")
           => /\ ~call.params.testMode
              /\ NonTestShortfall ]_vars

\* an execution outside test mode could not repay principal and fee; the call
\* returned with the failed loan counted
C18_Witness ==
    /\ pc = "idle"
    /\ lastResult.op = "executeFlashLoanArbitrage"
    /\ lastResult.error = "InsufficientRepayment"
    /\ lastResult.status = "returned"
    /\ st.metrics.flashLoanFailed >= 1
    /\ lenderFee > 0

\* a router call of leg n is open
InLeg(n) == pc = "inRouter" /\ frames[1].leg = n

\* C19 (ordering within one execution): the FlashLoanContext is stored when
\* the lender is called; the leg-1 router call is entered from the lender's
\* callback and the leg-2 router call only from a leg-1 call that returned
\* successfully with target tokens received, so leg 2 is never called after a
\* failed leg 1; the profit is computed and gated only when leg 2 has
\* returned; the loan is outstanding during both legs and the lender gets
\* tokens back only on the step that ends the execution, after the gate (by
\* the repayment, or by the undoing of a failed loan); and the balances the
\* callback leaves are those at repayment time less the repayment, so the
\* repayment is its last token movement.
C19_OrderOfOneExecution ==
    [][ /\ pc' = "inVault"
           => /\ pc \in {"idle", "inVault"}
              /\ HasFlashLoanContext(st', call'.params.executionId)
        /\ (InLeg(1)' /\ ~InLeg(1))
           => /\ pc = "inVault"
              /\ ReceiveFlashLoan(balancerVault, call.params.executionId)
        /\ (InLeg(2)' /\ ~InLeg(2))
           => /\ InLeg(1)
              /\ \E nb \in [Tokens -> 0 .. MaxBalance] : FirstSwapReturns(nb)
              /\ TradeContextOf(st', call.params.executionId).actualFirstLegOutput > 0
        /\ FirstSwapFails => (Completes /\ lastResult'.engine = "FirstSwapFailed")
        /\ (Completes /\ lastResult'.engine \in {"accepted", "InsufficientProfit"})
           => /\ InLeg(2)
              /\ \E nb \in [Tokens -> 0 .. MaxBalance] : SecondSwapReturns(nb)
        /\ Len(ArbitrageEvents(st')) > Len(ArbitrageEvents(st))
           => (InLeg(2) /\ Completes /\ lastResult'.engine = "accepted")
        /\ pc = "inRouter"
           => st.lenderNet[call.params.sourceToken]
                 = pre.lenderNet[call.params.sourceToken] - call.params.amount
        /\ (\E t \in Tokens : st'.lenderNet[t] > st.lenderNet[t])
           => /\ Completes
              /\ lastResult'.loan = "failed" => st'.lenderNet = pre.lenderNet
        /\ \A nb \in [Tokens -> 0 .. MaxBalance] :
              (SecondSwapReturns(nb) /\ lastResult'.engine = "accepted"
                 /\ lastResult'.loan = "repaid")
                 => st'.balance = [nb EXCEPT ![call.params.sourceToken] =
                        @ + lastResult'.pulled - (call.params.amount + lenderFee)]
        /\ (pc = "inRouter" /\ Completes /\ lastResult'.engine # "accepted"
              /\ lastResult'.loan = "repaid")
           => st'.balance = [frames[1].snap.balance EXCEPT ![call.params.sourceToken] =
                  @ + lastResult'.pulled - (call.params.amount + lenderFee)] ]_vars

\* leg 2 is open: leg 1 has returned target tokens, the context is stored and
\* the loan is still outstanding
C19_Witness ==
    /\ InLeg(2)
    /\ HasFlashLoanContext(st, call.params.executionId)
    /\ TradeContextOf(st, call.params.executionId).actualFirstLegOutput > 0
    /\ st.lenderNet[call.params.sourceToken] < pre.lenderNet[call.params.sourceToken]

\* C20 (saturating profit): for all unsigned w-bit initial and final balances,
\* the tradeProfit the engine computes is the mathematical difference
\* final - initial clamped to the signed w-bit range [MIN_INT256, MAX_INT256]
\* (MAX_INT256 for a larger gain, MIN_INT256 for a larger loss), never a
\* wrapped value, and none of the checked operations of the computation panics.
C20_SaturatingProfit ==
    calc.done
       => /\ calc.tradeProfit
               = Max(MIN_INT256,
                     Min(MAX_INT256, calc.finalAccountBalance - calc.initialAccountBalance))
          /\ calc.tradeProfit \in MIN_INT256 .. MAX_INT256
          /\ ~calc.panicked

\* the computation has run on a loss larger than the signed range holds
C20_Witness ==
    /\ calc.done
    /\ calc.initialAccountBalance - calc.finalAccountBalance > MAX_INT256 + 1
    /\ calc.tradeProfit = MIN_INT256

\* C21 (saturating expected profit): for every signed expectedSecondOutput and
\* every unsigned amount, the expectedProfit of the ArbitrageExecuted event is
\* expectedSecondOutput minus the amount (the amount clamped to MAX_INT256
\* first), clamped to [MIN_INT256, MAX_INT256]; it is the same whatever the
\* balances before and after the legs, and none of the checked operations of
\* the computation panics.
C21_SaturatingExpectedProfit ==
    calc.done
       => /\ calc.expectedProfit
               = Max(MIN_INT256,
                     Min(MAX_INT256,
                         calc.expectedSecondOutput - Min(calc.amount, MAX_INT256)))
          /\ ~calc.panicked

\* the engine has computed an expected profit that hit the lower bound, from
\* an amount beyond the signed range, in a run whose realised profit was
\* positive
C21_Witness ==
    /\ calc.done
    /\ calc.amount > MAX_INT256
    /\ calc.expectedSecondOutput < 0 - 1
    /\ calc.expectedProfit = MIN_INT256
    /\ calc.tradeProfit > 0

\* the engine run of the pending leg-2 call, for each outcome of the router
EngineOutcomes ==
    {EngineAfterSecondSwap(AfterRouter(st, frames[1].params.secondRouter, nb),
                           frames[1].params, frames[1].initialAccountBalance) :
        nb \in RouterOutcomes(st, frames[1].params.secondRouter)}

\* a step that ends a transaction whose engine run was accepted and whose loan
\* was repaid, so that the engine's writes are kept
KeepsAcceptedOutcome ==
    /\ Completes
    /\ lastResult'.engine = "accepted"
    /\ lastResult'.loan = "repaid"

\* the tradeProfit of the last engine run in the log
LastTradeProfit(s) == ArbitrageEvents(s)[Len(ArbitrageEvents(s))].profit

\* C22 (metrics update): an accepted engine outcome leaves totalExecutions one
\* higher than it found it, and successfulExecutions one higher and totalProfit
\* higher by tradeProfit exactly when tradeProfit > 0 (otherwise both as they
\* were); a transaction that keeps an accepted outcome changes the three values
\* in just this way and no other step changes them, so totalProfit and
\* flashLoanProfit never decrease, test-mode losses included.
C22_MetricsUpdate ==
    /\ [](InLeg(2) =>
            \A eng \in EngineOutcomes :
                eng.ok =>
                   /\ eng.s.metrics.totalExecutions = st.metrics.totalExecutions + 1
                   /\ IF eng.profit > 0
                      THEN /\ eng.s.metrics.successfulExecutions
                                 = st.metrics.successfulExecutions + 1
                           /\ eng.s.metrics.totalProfit = st.metrics.totalProfit + eng.profit
                      ELSE /\ eng.s.metrics.successfulExecutions
                                 = st.metrics.successfulExecutions
                           /\ eng.s.metrics.totalProfit = st.metrics.totalProfit)
    /\ [][/\ IF KeepsAcceptedOutcome
             THEN LET tradeProfit == LastTradeProfit(st')
                  IN /\ st'.metrics.totalExecutions = st.metrics.totalExecutions + 1
                     /\ st'.metrics.successfulExecutions
                           = st.metrics.successfulExecutions + (IF tradeProfit > 0 THEN 1 ELSE 0)
                     /\ st'.metrics.totalProfit
                           = st.metrics.totalProfit + (IF tradeProfit > 0 THEN tradeProfit ELSE 0)
             ELSE EngineMetricsUnchanged(st, st')
          /\ st'.metrics.totalProfit >= st.metrics.totalProfit
          /\ st'.metrics.flashLoanProfit >= st.metrics.flashLoanProfit]_vars

\* a test-mode loss was accepted and kept after a profitable execution: both
\* were counted, only the first as successful, and its profit is still there
C22_Witness ==
    /\ pc = "idle"
    /\ lastResult.engine = "accepted"
    /\ lastResult.loan = "repaid"
    /\ Len(ArbitrageEvents(st)) = 2
    /\ ArbitrageEvents(st)[1].profit > 0
    /\ LastTradeProfit(st) < 0
    /\ st.metrics.totalExecutions = 2
    /\ st.metrics.successfulExecutions = 1
    /\ st.metrics.totalProfit = ArbitrageEvents(st)[1].profit

\* the arguments with which configureDex must fail
DexSetupInvalid(dexName, router, supportedFeeTiers) ==
    \/ router = ZeroAddress
    \/ dexName = ""
    \/ \E i \in DOMAIN supportedFeeTiers : supportedFeeTiers[i] >= 10000

\* C23 (configureDex preconditions): a call of configureDex with the zero
\* router, the empty name or a fee tier >= 10000 anywhere in its list fails,
\* and leaves every DEX's config, its set of supported fee tiers (the tiers
\* listed before the offending one are not added) and the two router
\* convenience addresses as they were.
C23_ConfigureDexPreconditions ==
    [][\A caller \in AdminSpecCallers, dexName \in DexNames \cup {""},
          router \in RouterAddresses, maxGasUsage \in GasUsages, tiers \in FeeTierLists :
          (/\ DexSetupInvalid(dexName, router, tiers)
           /\ ConfigureDex(caller, dexName, router, 30, maxGasUsage, tiers))
             => /\ lastResult'.op = "configureDex"
                /\ lastResult'.status = "reverted"
                /\ caller = owner => lastResult'.error \in {"InvalidSetup(2)", "InvalidSetup(3)"}
                /\ adminCfg' = adminCfg]_vars

\* a configured DEX has just survived a failed configureDex: its fee tiers are
\* the ones of the earlier call
C23_Witness ==
    /\ lastResult.op = "configureDex"
    /\ lastResult.error = "InvalidSetup(3)"
    /\ DexConfigOf("uniswap").router = "router1"
    /\ DexConfigOf("uniswap").supportedFees = {100, 500, 3000}
    /\ adminCfg.uniswapRouterAddress = "router1"

\* the contract as it is after construction
FreshContract ==
    /\ owner = Owner
    /\ ~paused
    /\ adminCfg = ZeroAdminCfg
    /\ tokenConfigs = [t \in Tokens |-> ZeroTokenConfig]
    /\ st = InitState
    /\ pc = "idle"

\* the owner's configureDex("uniswap", ROUTER_A, 30, 3000000, tiers)
ExampleConfigureDex(tiers) == ConfigureDex(Owner, "uniswap", "router1", 30, 3000000, tiers)

\* C24 as stated (example scenario 1): on a fresh contract the owner's
\* configureDex("uniswap", ROUTER_A, 30, 3000000, [100, 500, 3000, 10000])
\* succeeds and getDexConfig("uniswap") then returns (ROUTER_A, 30, 3000000, true).
C24_ExampleSucceeds ==
    [][(FreshContract /\ ExampleConfigureDex(<<100, 500, 3000, 10000>>))
          => /\ lastResult'.status # "reverted"
             /\ GetDexConfig("uniswap")' = <<"router1", 30, 3000000, TRUE>>]_vars

\* C24 (example scenario 1, amended): on a fresh contract the owner's
\* configureDex("uniswap", ROUTER_A, 30, 3000000, [100, 500, 3000, 10000]) fails
\* with InvalidSetup(3), the last tier being MAX_BPS, and getDexConfig("uniswap")
\* then returns (0, 0, 0, false); the same call with the list [100, 500, 3000]
\* succeeds and getDexConfig("uniswap") then returns (ROUTER_A, 30, 3000000, true).
C24_ExampleFailsOnLastTier ==
    [][/\ (FreshContract /\ ExampleConfigureDex(<<100, 500, 3000, 10000>>))
             => /\ lastResult'.status = "reverted"
                /\ lastResult'.error = "InvalidSetup(3)"
                /\ GetDexConfig("uniswap")' = <<ZeroAddress, 0, 0, FALSE>>
       /\ (FreshContract /\ ExampleConfigureDex(<<100, 500, 3000>>))
             => /\ lastResult'.status # "reverted"
                /\ GetDexConfig("uniswap")' = <<"router1", 30, 3000000, TRUE>>]_vars

\* the example call has failed on a fresh contract, which is still fresh
C24_Witness ==
    /\ FreshContract
    /\ lastResult.op = "configureDex"
    /\ lastResult.status = "reverted"
    /\ lastResult.error = "InvalidSetup(3)"
    /\ GetDexConfig("uniswap") = <<ZeroAddress, 0, 0, FALSE>>

\* poolConfigs[pool]
PoolConfigOf(pool) ==
    IF pool \in DOMAIN adminCfg.poolConfigs THEN adminCfg.poolConfigs[pool] ELSE ZeroPoolConfig

\* C25 (pool precondition): configurePool fails and leaves every pool config as
\* it was when the pool is the zero address, when the named DEX was never
\* configured or is disabled at the call, or when fee >= 10000; the owner's call
\* with none of these defects succeeds, and then the pool is enabled and its
\* dexRouter is the router the DEX has at the call, which is the non-zero router
\* of an enabled DEX; no other call writes a pool config.  Hence every enabled
\* pool has a non-zero dexRouter.
C25_PoolPrecondition ==
    /\ [][/\ \A caller \in AdminSpecCallers, pool \in Pools \cup {ZeroAddress},
                fee \in PoolFees, dexName \in DexNames \cup {""} :
                ConfigurePool(caller, pool, fee, 1, dexName)
                   => IF \/ pool = ZeroAddress
                         \/ DexConfigOf(dexName).router = ZeroAddress
                         \/ ~DexConfigOf(dexName).isEnabled
                         \/ fee >= 10000
                         \/ caller # owner
                      THEN /\ lastResult'.op = "configurePool"
                           /\ lastResult'.status = "reverted"
                           /\ adminCfg'.poolConfigs = adminCfg.poolConfigs
                      ELSE /\ lastResult'.status # "reverted"
                           /\ PoolConfigOf(pool)'.isEnabled
                           /\ PoolConfigOf(pool)'.fee = fee
                           /\ PoolConfigOf(pool)'.dexRouter = DexConfigOf(dexName).router
                           /\ PoolConfigOf(pool)'.dexRouter # ZeroAddress
          /\ adminCfg'.poolConfigs # adminCfg.poolConfigs
                => \E pool \in Pools, fee \in PoolFees, dexName \in DexNames :
                      ConfigurePool(owner, pool, fee, 1, dexName)]_vars
    /\ [](\A pool \in Pools : PoolConfigOf(pool).isEnabled
                                 => PoolConfigOf(pool).dexRouter # ZeroAddress)

\* a pool was configured on a DEX that has since been given another router and
\* been disabled, and a configurePool naming the disabled DEX has just failed:
\* the pool keeps the router of its own configuration
C25_Witness ==
    /\ PoolConfigOf("pool1").isEnabled
    /\ PoolConfigOf("pool1").dexRouter = "router1"
    /\ DexConfigOf("uniswap").router = "router2"
    /\ ~DexConfigOf("uniswap").isEnabled
    /\ lastResult.op = "configurePool"
    /\ lastResult.error = "InvalidSetup(5)"

\* C26 (token invariant): configureToken fails for maxAmount <= minAmount
\* (equal values included), for decimals > 18 and for the zero address, and
\* then leaves every token config as it was; hence every token config that was
\* ever written has maxAmount > minAmount and decimals <= 18, whatever
\* configureToken and setTokenEnabled calls were made.
C26_TokenInvariant ==
    /\ [][\A caller \in AdminSpecCallers, token \in TokenAddresses, maxAmount \in TokenBounds,
             minAmount \in TokenBounds, decimals \in TokenDecimals :
             (/\ ConfigureToken(caller, token, maxAmount, minAmount, decimals)
              /\ (maxAmount <= minAmount \/ decimals > 18 \/ token = ZeroAddress))
                => /\ lastResult'.op = "configureToken"
                   /\ lastResult'.status = "reverted"
                   /\ tokenConfigs' = tokenConfigs]_vars
    /\ [](\A token \in Tokens :
             tokenConfigs[token] # ZeroTokenConfig
                => /\ tokenConfigs[token].maxAmount > tokenConfigs[token].minAmount
                   /\ tokenConfigs[token].decimals <= 18)

\* a token with a config has just survived a configureToken with equal bounds
C26_Witness ==
    /\ lastResult.op = "configureToken"
    /\ lastResult.error = "InvalidSetup(8)"
    /\ tokenConfigs["tokenA"].maxAmount = MaxAmount + 1
    /\ tokenConfigs["tokenA"].minAmount = MaxAmount
    /\ tokenConfigs["tokenA"].decimals = 18
    /\ ~tokenConfigs["tokenA"].isEnabled

\* C27 (enablement toggles): for every token that a successful configureToken
\* configured, with any decimals from 0 to 18, the owner's
\* setTokenEnabled(token, b) succeeds, sets the enabled flag to b and changes no
\* other field.
C27_ConfiguredTokenToggles ==
    [][\A token \in ConfigurableTokens, isEnabled \in BOOLEAN :
          (/\ tokenConfigs[token] # ZeroTokenConfig
           /\ SetTokenEnabled(owner, token, isEnabled))
             => /\ lastResult'.status # "reverted"
                /\ tokenConfigs' = [tokenConfigs EXCEPT ![token].isEnabled = isEnabled]]_vars

\* C28 (trade size limits): a call of executeFlashLoanArbitrage for an amount
\* greater than the source token's configured maxAmount or smaller than its
\* configured minAmount is rejected: no loan is requested and nothing changes.
C28_TradeSizeLimits ==
    [][\A src \in Tokens, tgt \in Tokens, amount \in Amounts, testMode \in BOOLEAN :
          (/\ \/ amount > tokenConfigs[src].maxAmount
              \/ amount < tokenConfigs[src].minAmount
           /\ ExecuteCalled(src, tgt, amount, testMode))
             => /\ lastResult'.status = "reverted"
                /\ pc' = pc
                /\ st' = st]_vars

InitiatedEvents(s) ==
    {i \in 1 .. Len(s.events) :
        s.events[i].event = "FlashLoanEvent" /\ s.events[i].eventType = 1}

\* C30 (fresh execution id): the execution ids derived for distinct top-level
\* calls that passed validation differ, and an execution that has passed
\* validation finds neither executedTrades nor a TradeContext populated under
\* its id.
C30_FreshExecutionId ==
    /\ \A i, j \in InitiatedEvents(st) :
          i # j => st.events[i].executionId # st.events[j].executionId
    /\ pc = "inVault"
          => /\ call.params.executionId \notin st.executedTrades
             /\ TradeContextOf(st, call.params.executionId) = ZeroTradeContext

\* the polls of the run that returned a receipt with status 'success'
ConfirmingPolls ==
    {i \in 1 .. Len(confirmation.polls) : confirmation.polls[i].outcome = "success"}

\* C31 (waiting for a confirmation): a run of waitForTransactionConfirmation
\* ends, and ends by returning true or false; it returns true exactly when one
\* of its polls, each of which was sent before the timeout had elapsed, came
\* back with a receipt of status 'success', and false otherwise, once the
\* timeout has elapsed; a poll that throws, yields no receipt or yields a
\* receipt with another status is followed by a sleep of at least the polling
\* interval and then by the loop test.
C31_ConfirmationWait ==
    /\ [](confirmation.at = "done"
            => /\ confirmation.returned \in {"true", "false"}
               /\ confirmation.returned = "true" <=> ConfirmingPolls # {}
               /\ confirmation.returned = "false"
                     => confirmation.elapsed >= confirmation.timeoutMs)
    /\ [](\A i \in 1 .. Len(confirmation.polls) :
             confirmation.polls[i].startedAt < confirmation.timeoutMs)
    /\ [][/\ \A outcome \in PollOutcomes \ {"success"}, duration \in 0 .. MaxPollTime :
                PollSettles(outcome, duration)
                   => confirmation'.at = "sleeping" /\ confirmation'.returned = "none"
          /\ confirmation.at = "sleeping" /\ confirmation'.at # "sleeping"
                => /\ confirmation'.at = "loop"
                   /\ confirmation'.elapsed
                         >= confirmation.elapsed + confirmation.pollingInterval]_vars
    /\ [](confirmation.at # "idle" => <>(confirmation.at = "done"))

\* a run has returned true on its third poll, after a poll that threw and a
\* poll with a reverted receipt; the last poll was sent before the timeout and
\* came back after it
C31_Witness ==
    /\ confirmation.at = "done"
    /\ confirmation.returned = "true"
    /\ Len(confirmation.polls) = 3
    /\ confirmation.polls[1].outcome = "throws"
    /\ confirmation.polls[2].outcome = "reverted"
    /\ confirmation.elapsed > confirmation.timeoutMs

\* the three flash-loan counters of a state
FlashLoanCounters(s) ==
    <<s.metrics.flashLoanExecutions, s.metrics.flashLoanSuccessful, s.metrics.flashLoanFailed>>

\* C32 (flash-loan counters): between top-level transactions
\* flashLoanExecutions = flashLoanSuccessful + flashLoanFailed; a step that ends
\* an executeFlashLoanArbitrage call which passed validation leaves
\* flashLoanExecutions one above its value before the call and exactly one of
\* flashLoanSuccessful and flashLoanFailed one above its own, the other as it
\* was; no other step changes the three counters.
C32_FlashLoanCounters ==
    /\ [](pc = "idle" => st.metrics.flashLoanExecutions
                            = st.metrics.flashLoanSuccessful + st.metrics.flashLoanFailed)
    /\ [][IF Completes /\ lastResult'.op = "executeFlashLoanArbitrage"
          THEN /\ lastResult'.status = "returned"
               /\ st'.metrics.flashLoanExecutions = pre.metrics.flashLoanExecutions + 1
               /\ \/ /\ lastResult'.loan = "repaid"
                     /\ st'.metrics.flashLoanSuccessful = pre.metrics.flashLoanSuccessful + 1
                     /\ st'.metrics.flashLoanFailed = pre.metrics.flashLoanFailed
                  \/ /\ lastResult'.loan = "failed"
                     /\ st'.metrics.flashLoanSuccessful = pre.metrics.flashLoanSuccessful
                     /\ st'.metrics.flashLoanFailed = pre.metrics.flashLoanFailed + 1
          ELSE FlashLoanCounters(st') = FlashLoanCounters(st)]_vars

\* one execution was repaid and one failed: two executions are counted
C32_Witness ==
    /\ pc = "idle"
    /\ st.metrics.flashLoanSuccessful = 1
    /\ st.metrics.flashLoanFailed = 1
    /\ st.metrics.flashLoanExecutions = 2
    /\ lastResult.loan = "failed"

ExecutionsOrdered(s, slack) ==
    /\ s.metrics.successfulExecutions <= s.metrics.totalExecutions
    /\ s.metrics.totalExecutions <= s.metrics.flashLoanSuccessful + slack

\* what getContractStats reports in state s is consistent
StatsConsistent(s) ==
    /\ GetContractStats(s)[3] = s.metrics.totalExecutions - s.metrics.successfulExecutions
    /\ GetContractStats(s)[4] \in 0 .. 10000
    /\ s.metrics.totalExecutions = 0 => GetContractStats(s)[4] = 0

CompletesLive ==
    /\ Completes
    /\ call.op = "executeFlashLoanArbitrage"
    /\ ~call.params.testMode

\* C35 (no loss without test mode): behind a lender that delivers the amount
\* asked for and charges no fee, an execution with testMode = false never
\* lowers the contract's source-token balance: it ends with the balance it
\* started with when the engine was rejected, failed or never ran, with a
\* strictly higher one when the engine was accepted, and never with
\* InsufficientRepayment.
C35_NoLossWithoutTestMode ==
    [][CompletesLive =>
          LET src == call.params.sourceToken
          IN /\ lenderFee = 0
             /\ lastResult'.error # "InsufficientRepayment"
             /\ lastResult'.pulled = 0
             /\ IF lastResult'.engine = "accepted"
                THEN /\ lastResult'.loan = "repaid"
                     /\ st'.balance[src] > call.preCallBalance
                     /\ st'.balance[src] > pre.balance[src]
                ELSE st'.balance[src] = pre.balance[src]]_vars

\* an execution without test mode was accepted after one whose engine failed:
\* the first left the balance as it was, the second left its profit on top
C35_Witness ==
    /\ pc = "idle"
    /\ lenderFee = 0
    /\ lastResult.op = "executeFlashLoanArbitrage"
    /\ lastResult.engine = "accepted"
    /\ lastResult.loan = "repaid"
    /\ Len(ArbitrageEvents(st)) = 1
    /\ ~ArbitrageEvents(st)[1].testMode
    /\ LastTradeProfit(st) > 0
    /\ st.metrics.flashLoanSuccessful = 2
    /\ lastResult.returned = LastTradeProfit(st)

\* the source-token balance the callback reads before it repays: what the
\* accepted engine run left, or the balance before the call plus the loan
\* when the engine run was rolled back
CallbackBalance(s) ==
    IF lastResult'.engine = "accepted"
    THEN ArbitrageEvents(s)[Len(ArbitrageEvents(s))].finalAccountBalance
    ELSE pre.balance[call.params.sourceToken] + call.params.amount

CallbackOutcomes ==
    {CallbackRepay(IF eng.ok THEN eng.s ELSE EngineReverted(frames[1].snap, eng.s),
                   frames[1].params, eng.ok, eng.error, eng.profit,
                   frames[1].params.amount, lenderFee) : eng \in EngineOutcomes}

\* every completed FlashLoanEvent in a state's log
AllCompletedEvents(s) ==
    SelectSeq(s.events, LAMBDA e : e.event = "FlashLoanEvent" /\ e.eventType = 2)

C38_SuccessOnlyOnSuccessReceipt ==
    /\ tokenScript.attempts <= MAX_RETRY_ATTEMPTS
    /\ Len(tokenScript.waits) <= MAX_RETRY_ATTEMPTS
    /\ tokenScript.loggedSuccess => tokenScript.receipt = "success"
    /\ tokenScript.outcome = "returned" =>
          tokenScript.loggedSuccess /\ tokenScript.receipt = "success"
    /\ (tokenScript.at = "loop" /\ Len(tokenScript.waits) > 0
          /\ tokenScript.waits[Len(tokenScript.waits)] # "success") =>
             tokenScript.receipt = "null" /\ tokenScript.attempts < MAX_RETRY_ATTEMPTS
    /\ tokenScript.error = "Failed to get receipt" =>
          /\ tokenScript.attempts = MAX_RETRY_ATTEMPTS
          /\ \A i \in 1 .. Len(tokenScript.waits) : tokenScript.waits[i] # "success"

\* C39 (tracker capacity): a TransactionTracker never holds more than 2
\* hashes.  addTransaction on a tracker that holds 2 throws 'Maximum
\* transaction count exceeded' and leaves the set as it was; on a tracker that
\* holds fewer it adds the hash and does not throw that error; clear empties
\* the set, after which two further hashes are accepted and a third is not.
C39_TrackerHoldsAtMostTwo ==
    /\ [](/\ tracker.maxTransactions = 2
          /\ Cardinality(tracker.transactions) <= 2
          /\ \A h1 \in TrackedHashes : \A h2 \in TrackedHashes \ {h1} :
             \A h3 \in TrackedHashes \ {h1, h2} :
                LET t1 == AddTransactionTo(ClearTracker(tracker), h1)
                    t2 == AddTransactionTo(t1, h2)
                    t3 == AddTransactionTo(t2, h3)
                IN /\ t1.thrown # MaximumExceeded
                   /\ t2.thrown # MaximumExceeded
                   /\ t2.transactions = {h1, h2}
                   /\ t3.thrown = MaximumExceeded
                   /\ t3.transactions = {h1, h2})
    /\ [][\A hash \in TrackedHashes :
             AddTransaction(hash) =>
                IF Cardinality(tracker.transactions) >= 2
                THEN /\ tracker'.thrown = MaximumExceeded
                     /\ tracker'.transactions = tracker.transactions
                ELSE /\ tracker'.thrown # MaximumExceeded
                     /\ tracker'.transactions = tracker.transactions \cup {hash}]_vars
    /\ [][Clear => tracker'.transactions = {} /\ tracker'.thrown = "none"]_vars

\* a tracker holding two hashes turned a third one away
C39_Witness ==
    /\ Cardinality(tracker.transactions) = 2
    /\ tracker.thrown = MaximumExceeded
    /\ tracker.called[1] = "addTransaction"
    /\ tracker.called[2] \notin tracker.transactions
    /\ Undefined \notin tracker.transactions

====
